---- MODULE Spec2Model ----
(***************************************************************************)
(* A model of the profile aggregation core of libdatadog: the append-only  *)
(* table, the string interner, the entity tables and the Profile           *)
(* aggregator (add, add_endpoint, add_upscaling_rule, reset, serialize).   *)
(***************************************************************************)
EXTENDS Integers, Sequences, FiniteSets, TLC

VARIABLES
    build,        \* "debug" | "release": decides what integer overflow does
    crashed,      \* "no", or the "panic" or "fault" that ended the process
    nops,         \* number of operations performed
    table,        \* a standalone StringTable (string_table.rs)
    first_id,     \* history: string -> the id its first insert returned
    profile,      \* the Profile (profile/mod.rs)
    old_profile,  \* the Profile the last successful reset returned
    last,         \* the last operation: its name, input and result
    hist,         \* history of what the caller added since construction/reset
    id_table,     \* a standalone Table<TestItem> (identifiable/table.rs)
    inserted_items, \* history: the distinct items inserted, in order
    atable,       \* a standalone append-only Table<T> with its memory (alloc/table.rs)
    written,      \* history: the items the writer's add / add_slice accepted, in order
    writer,       \* the writer inside Table::alloc: [pc, item, offset], pc = 0 outside
    readers,      \* each reader inside try_fetch: [pc, offset, out, item, n]
    arena,        \* a standalone ArenaAllocator (alloc/arena.rs)
    cell,         \* a StringTable with its memory, its writer and a StringTableReader
    channel       \* an ipc Channel inside write_all, with its ChannelMetadata

appendVars == <<atable, written, writer, readers>>

vars == <<build, crashed, nops, table, first_id, profile, old_profile, last, hist,
          id_table, inserted_items, atable, written, writer, readers, arena,
          cell, channel>>

----------------------------------------------------------------------------
(* Bounds of the model.                                                    *)

\* Page size of the (scaled-down) machine: region::alloc rounds up to it.
PageSize == 8
\* Capacity asked of the standalone string table.
StrTableCap == 8
\* Number of inserts into the standalone string table.
MaxInserts == 5
\* Limits of the profile: items of each entity table, bytes of strings.
FunctionsMem == 2
LocationsMem == 2
MappingsMem == 1
StringsMem == 512
\* Number of operations on the profile in each specification.
MaxAdds == 3
MaxEndpointOps == 3
MaxResetOps == 3
\* Operations before the last serialization of the endpoint counts
MaxCountOps == 3
MaxRules == 3
MaxScalingOps == 3
\* Capacity (in items) asked of the standalone entity table, and the number
\* of operations on it.
TableCapacity == 2
MaxTableOps == 4
\* Capacity (in elements) asked of the standalone append-only table, the
\* number of sequential operations on it, and for the concurrent use the
\* number of readers, of adds by the writer and of fetches by each reader.
AppendCap == 4
MaxAppendOps == 3
NumReaders == 2
MaxWrites == 2
MaxFetches == 1
\* Capacity (in bytes) asked of the standalone arena, and the number of
\* allocations from it.
ArenaCap == 8
\* Capacity asked of the StringTable shared with a reader, the number of
\* insert calls of its writer and of try_get_id calls of its reader.
CellCap == 8
MaxCellInserts == 2
MaxGets == 2
\* Handles enqueued on the channel and the longest buffer written.
MaxHandles == 2
MaxBuf == 2
MaxAllocs == 3
\* SystemTime::now() and the start time given at construction (nanoseconds).
Now == 3
StartTime == 1

----------------------------------------------------------------------------
(* Generic helpers.                                                        *)

Pow16 == 65536

\* x does not fit an unsigned 32-bit integer (x >= 2^32), computed by halves
Overflows32(x) == (x \div Pow16) >= Pow16

\* x does not fit a 64-bit usize (x >= 2^64)
OverflowsUsize(x) == Overflows32((x \div Pow16) \div Pow16)

RoundUp(n, m) == ((n + m - 1) \div m) * m

\* region::alloc(size): fails on size 0, else a region of whole pages
region_alloc(size) ==
    IF size = 0 THEN [ok |-> FALSE, len |-> 0]
    ELSE [ok |-> TRUE, len |-> RoundUp(size, PageSize)]

Range(s) == {s[i] : i \in 1..Len(s)}

\* F(e), with e evaluated once: the binding of a result to a name
Bind(e, F(_)) == CHOOSE y \in {F(v) : v \in {e}} : TRUE

----------------------------------------------------------------------------
(* alloc/table.rs: the append-only table.  A table is [len, cap]; its      *)
(* contents are kept by the owner (the string table keeps the strings).    *)

\* Table::new(capacity) for elements of `size` bytes
Table_new(capacity, size) ==
    LET a == region_alloc(capacity * size)
    IN  [ok |-> a.ok, len |-> 0, cap |-> a.len \div size]

\* Table::alloc(item): "ok" with the offset written, or "panic"
Table_alloc(t) ==
    IF t.len = t.cap
    THEN [out |-> "panic", offset |-> t.len, t |-> t]
    ELSE [out |-> "ok", offset |-> t.len, t |-> [t EXCEPT !.len = t.len + 1]]

\* Table::alloc_slice(items) with n = items.len().  `bld` is the build
\* ("debug": arithmetic overflow panics; "release": it wraps), `ub` the
\* outcome of a write past the region ("fault" | "overrun").
Table_alloc_slice(t, n, bld, ub) ==
    LET offset == t.len
        len    == offset + n
    IN  IF Overflows32(len)
        THEN [out |-> "panic", t |-> t]                    \* checked_add(..).unwrap()
        ELSE IF len > t.cap
        THEN \* cap - len underflows
             IF bld = "debug"
             THEN [out |-> "panic", t |-> t]
             ELSE \* u32 wraps to 2^32 - (len - cap); offset > that iff
                  \* offset + (len - cap) > 2^32
                  IF Overflows32(offset + (len - t.cap) - 1)
                  THEN [out |-> "panic", t |-> t]
                  ELSE \* memcpy past the end of the region
                       IF ub = "fault"
                       THEN [out |-> "fault", t |-> t]
                       ELSE [out |-> "overrun", t |-> [t EXCEPT !.len = len]]
        ELSE IF offset > t.cap - len
        THEN [out |-> "panic", t |-> t]                    \* "table is full"
        ELSE [out |-> "ok", t |-> [t EXCEPT !.len = len]]

\* Table::try_fetch(offset) that lets the offset of the length through
Table_try_fetch_inclusive(t, offset) == offset <= t.len

\* Table::try_fetch(offset): is the offset below the published length
Table_try_fetch(t, offset) == offset < t.len

\* A u32 as <<high, low>> 16-bit halves, so that values up to u32::MAX
\* and their sums can be written.
U32(n) == <<n \div Pow16, n % Pow16>>
U32_MAX == <<Pow16 - 1, Pow16 - 1>>
U32Val(x) == x[1] * Pow16 + x[2]

\* u32::checked_add(a, b): <<>> (None) or <<sum>>
checked_add_u32(a, b) ==
    Bind(a[2] + b[2], LAMBDA lo :
    Bind(a[1] + b[1] + (lo \div Pow16), LAMBDA hi :
        IF hi >= Pow16 THEN <<>> ELSE <<(<<hi, lo % Pow16>>)>>))

\* a < b for u32 halves
LessU32(a, b) == a[1] < b[1] \/ (a[1] = b[1] /\ a[2] < b[2])

\* Table::try_fetch_range(offset, len), offset and len as u32 halves:
\* "ok" (the slice at offset, of len elements), or the error
Table_try_fetch_range(t, offset, len) ==
    Bind(checked_add_u32(offset, len), LAMBDA end :
        IF end = <<>> THEN "overflowed"
        ELSE IF LessU32(end[1], U32(t.len)) THEN "ok"
        ELSE "out of bounds")

----------------------------------------------------------------------------
(* alloc/table.rs: a TableWriter<T> with its memory.  The table is         *)
(* [len, cap, size, mem]: mem[i + 1] is the slot at offset i of the        *)
(* region, 0 where nothing was written (a fresh region is zero-filled).    *)

\* a slot of which only some of the bytes were written
Torn == -1

\* TableWriter::new(capacity) for elements of `size` bytes: [ok, t]
TableWriter_new(capacity, size) ==
    Bind(Table_new(capacity, size), LAMBDA r :
        [ok |-> r.ok,
         t |-> [len |-> 0, cap |-> r.cap, size |-> size,
                mem |-> [i \in 1..r.cap |-> 0]]])

\* ptr::write(base.add(offset), item): the slot written when it lies in the
\* region
WriteSlot(mem, offset, item) ==
    [i \in 1..Len(mem) |-> IF i = offset + 1 THEN item ELSE mem[i]]

\* TableWriter::add(item): [out, offset, t].  Once the length is beyond
\* the capacity the write lands outside the region (`ub`).
TableWriter_add(t, item, ub) ==
    Bind(Table_alloc(t), LAMBDA r :
        IF r.out = "panic" THEN [out |-> "panic", offset |-> r.offset, t |-> t]
        ELSE IF r.offset >= t.cap
        THEN IF ub = "fault" THEN [out |-> "fault", offset |-> r.offset, t |-> t]
             ELSE [out |-> "overrun", offset |-> r.offset, t |-> r.t]
        ELSE [out |-> "ok", offset |-> r.offset,
              t |-> [r.t EXCEPT !.mem = WriteSlot(t.mem, r.offset, item)]])

\* libc::memcpy(addr, items.as_ptr(), items.len()): items.len() BYTES are
\* copied, which are items.len() \div size whole elements and, when a
\* rest remains, a part of the next one
Memcpy(mem, offset, items, size) ==
    [i \in 1..Len(mem) |->
        IF i > offset /\ (i - offset) * size <= Len(items) THEN items[i - offset]
        ELSE IF i > offset /\ (i - offset - 1) * size < Len(items) THEN Torn
        ELSE mem[i]]

\* slice::from_raw_parts(addr, n): the n slots from offset; `items` stands
\* for what lies beyond the region
SliceAt(mem, offset, n, items) ==
    [k \in 1..n |-> IF offset + k <= Len(mem) THEN mem[offset + k] ELSE items[k]]

\* TableWriter::add_slice(items): [out, slice, t].  The bytes copied run
\* past the region only when offset * size + items.len() exceeds its bytes.
TableWriter_add_slice(t, items, bld, ub) ==
    Bind(Table_alloc_slice(t, Len(items), bld,
                           IF t.len * t.size + Len(items) <= t.cap * t.size
                           THEN "overrun" ELSE ub), LAMBDA r :
        IF r.out \in {"panic", "fault"} THEN [out |-> r.out, slice |-> <<>>, t |-> t]
        ELSE Bind(Memcpy(t.mem, t.len, items, t.size), LAMBDA mem :
                [out |-> r.out,
                 slice |-> SliceAt(mem, t.len, Len(items), items),
                 t |-> [r.t EXCEPT !.mem = mem]]))

\* TableWriter::try_fetch(offset): [out, item]; a reference beyond the
\* region refers to whatever is there (`junk`)
TableWriter_try_fetch(t, offset, junk) ==
    IF ~Table_try_fetch(t, offset) THEN [out |-> "err", item |-> 0]
    ELSE IF offset < t.cap THEN [out |-> "ok", item |-> t.mem[offset + 1]]
    ELSE [out |-> "ok", item |-> junk]

\* TableWriter::try_fetch_range(offset, len): [out, slice]
TableWriter_try_fetch_range(t, offset, len, junk) ==
    Bind(Table_try_fetch_range(t, offset, len), LAMBDA r :
        IF r # "ok" THEN [out |-> r, slice |-> <<>>]
        ELSE [out |-> "ok",
              slice |-> SliceAt(t.mem, U32Val(offset), U32Val(len),
                                [k \in 1..U32Val(len) |-> junk])])

----------------------------------------------------------------------------
(* collections/identifiable/string_table.rs                                *)

\* capacity of the string-view table (hard-coded)
VecCap == 4096
\* size of a &str (pointer and length)
StrViewSize == 16

StringId_ZERO == 0

\* StringTable::insert_full(str) with a lookup that never hits
StringTable_insert_full_dup(t, str, bld, ub) ==
    Bind(Table_alloc_slice(t.bytes, Len(str), bld, ub), LAMBDA b :
    Bind(Table_alloc(t.vec_t), LAMBDA v :
        IF b.out \in {"panic", "fault"} \/ v.out = "panic"
        THEN [out |-> "panic", id |-> t.vec_t.len, inserted |-> FALSE, t |-> t]
        ELSE [out |-> b.out, id |-> t.vec_t.len, inserted |-> TRUE,
              t |-> [bytes |-> b.t, vec_t |-> v.t, vec |-> Append(t.vec, str),
                     map |-> (str :> t.vec_t.len) @@ t.map]]))

\* StringTable::insert_full(str): [out, id, inserted, t]
StringTable_insert_full(t, str, bld, ub) ==
    IF str \in DOMAIN t.map
    THEN [out |-> "ok", id |-> t.map[str], inserted |-> FALSE, t |-> t]
    ELSE
    Bind(Table_alloc_slice(t.bytes, Len(str), bld, ub), LAMBDA b :
        IF b.out \in {"panic", "fault"}
        THEN [out |-> b.out, id |-> t.vec_t.len, inserted |-> FALSE, t |-> t]
        ELSE
        Bind(Table_alloc(t.vec_t), LAMBDA v :
            IF v.out = "panic"
            THEN [out |-> "panic", id |-> t.vec_t.len, inserted |-> FALSE,
                  t |-> [t EXCEPT !.bytes = b.t]]
            ELSE [out |-> b.out, id |-> t.vec_t.len, inserted |-> TRUE,
                  t |-> [bytes |-> b.t, vec_t |-> v.t, vec |-> Append(t.vec, str),
                         map |-> (str :> t.vec_t.len) @@ t.map]]))

\* StringTable::with_capacity(capacity): [out, t]; "" is inserted first
StringTable_with_capacity(capacity, bld, ub) ==
    Bind(Table_new(capacity, 1), LAMBDA bytes :
    Bind(Table_new(VecCap, StrViewSize), LAMBDA vec_t :
    Bind([bytes |-> [len |-> 0, cap |-> bytes.cap],
          vec_t |-> [len |-> 0, cap |-> vec_t.cap],
          vec |-> <<>>, map |-> <<>>], LAMBDA empty :
        IF ~bytes.ok
        THEN [out |-> "alloc", t |-> empty]
        ELSE Bind(StringTable_insert_full(empty, "", bld, ub), LAMBDA r :
                [out |-> r.out, t |-> r.t]))))

\* StringTable::get_id(id) that takes the id for a position counted from 1
StringTable_get_id_from_one(t, id) ==
    IF Table_try_fetch(t.vec_t, id)
    THEN [out |-> "ok", str |-> t.vec[IF id = 0 THEN 1 ELSE id]]
    ELSE [out |-> "panic", str |-> ""]

\* StringTable::get_id(id): the string, or a panic
StringTable_get_id(t, id) ==
    IF Table_try_fetch(t.vec_t, id)
    THEN [out |-> "ok", str |-> t.vec[id + 1]]
    ELSE [out |-> "panic", str |-> ""]

----------------------------------------------------------------------------
(* alloc/arena.rs and alloc/mod.rs: the bump allocator.                    *)
(* An arena is [len, remaining_capacity, alignment].                       *)

RECURSIVE BitAnd(_, _)
BitAnd(a, b) ==
    IF a = 0 \/ b = 0 THEN 0
    ELSE (a % 2) * (b % 2) + 2 * BitAnd(a \div 2, b \div 2)

Max(a, b) == IF a >= b THEN a ELSE b

\* pad_to(bytes, page_size) that does not round up
pad_to_unpadded(bytes, page_size) == <<bytes>>

\* pad_to(bytes, page_size): <<>> (None) or <<padded>>
pad_to(bytes, page_size) ==
    Bind(Max(bytes, page_size), LAMBDA b :
    Bind(BitAnd(b, page_size - 1), LAMBDA remainder :
        IF remainder = 0 THEN <<b>>
        ELSE IF OverflowsUsize(b + (page_size - remainder)) THEN <<>>
        ELSE <<b + (page_size - remainder)>>))

\* ArenaAllocator::from_allocation(alignment, allocation)
ArenaAllocator_from_allocation(alignment, len) ==
    [len |-> len, remaining_capacity |-> len, alignment |-> alignment]

\* n is a power of two
is_power_of_two(n) == n > 0 /\ BitAnd(n, n - 1) = 0

\* ArenaAllocator::with_capacity(alignment, capacity): [out, a]
ArenaAllocator_with_capacity(alignment, capacity) ==
    IF ~is_power_of_two(alignment) \/ capacity = 0 \/ ~(capacity >= alignment)
    THEN [out |-> "panic", a |-> ArenaAllocator_from_allocation(alignment, 0)]
    ELSE Bind(region_alloc(capacity), LAMBDA r :
            IF ~r.ok THEN [out |-> "err", a |-> ArenaAllocator_from_allocation(alignment, 0)]
            ELSE IF ~(r.len >= alignment)
            THEN [out |-> "panic", a |-> ArenaAllocator_from_allocation(alignment, 0)]
            ELSE [out |-> "ok", a |-> ArenaAllocator_from_allocation(alignment, r.len)])

\* ArenaAllocator::allocate(layout) that refuses a padded size equal to
\* the remaining capacity
ArenaAllocator_allocate_strict(a, size, align) ==
    IF align > a.alignment THEN [ok |-> FALSE, offset |-> 0, size |-> 0, a |-> a]
    ELSE IF size = 0 THEN [ok |-> TRUE, offset |-> 0, size |-> 0, a |-> a]
    ELSE Bind(pad_to(size, a.alignment), LAMBDA padded :
            IF padded = <<>> THEN [ok |-> FALSE, offset |-> 0, size |-> 0, a |-> a]
            ELSE IF padded[1] >= a.remaining_capacity
            THEN [ok |-> FALSE, offset |-> 0, size |-> 0, a |-> a]
            ELSE [ok |-> TRUE,
                  offset |-> a.len - a.remaining_capacity,
                  size |-> padded[1],
                  a |-> [a EXCEPT !.remaining_capacity = @ - padded[1]]])

\* ArenaAllocator::allocate(layout): [ok, offset, size, a]
ArenaAllocator_allocate(a, size, align) ==
    IF align > a.alignment THEN [ok |-> FALSE, offset |-> 0, size |-> 0, a |-> a]
    ELSE IF size = 0 THEN [ok |-> TRUE, offset |-> 0, size |-> 0, a |-> a]
    ELSE Bind(pad_to(size, a.alignment), LAMBDA padded :
            IF padded = <<>> THEN [ok |-> FALSE, offset |-> 0, size |-> 0, a |-> a]
            ELSE IF padded[1] > a.remaining_capacity
            THEN [ok |-> FALSE, offset |-> 0, size |-> 0, a |-> a]
            ELSE [ok |-> TRUE,
                  offset |-> a.len - a.remaining_capacity,
                  size |-> padded[1],
                  a |-> [a EXCEPT !.remaining_capacity = @ - padded[1]]])

----------------------------------------------------------------------------
(* collections/identifiable/table.rs: the deduplicating entity table.      *)
(* A table is [arena, items]; the hash map holds exactly the items, keyed  *)
(* by value, each with its offset as id.                                   *)

\* the offset of item x in the sequence s (0-based), x in s
RECURSIVE IndexOfFrom(_, _, _)
IndexOfFrom(s, x, i) ==
    IF i > Len(s) THEN Len(s)
    ELSE IF s[i] = x THEN i - 1
    ELSE IndexOfFrom(s, x, i + 1)

IndexOf(s, x) == IndexOfFrom(s, x, 1)

\* Table::with_arena_capacity(capacity) for items of `size`, `align`
IdTable_with_arena_capacity(capacity, size, align) ==
    Bind(region_alloc(size * capacity), LAMBDA a :
        [ok |-> a.ok,
         t |-> [arena |-> ArenaAllocator_from_allocation(align, a.len),
                items |-> <<>>]])

\* Table::insert_full(item) that does not look the item up before storing it
IdTable_insert_full_no_lookup(t, item, size, align) ==
    Bind(ArenaAllocator_allocate(t.arena, size, align), LAMBDA r :
        IF ~r.ok
        THEN [ok |-> FALSE, id |-> Len(t.items), inserted |-> FALSE, t |-> t]
        ELSE [ok |-> TRUE, id |-> Len(t.items), inserted |-> TRUE,
              t |-> [arena |-> r.a, items |-> Append(t.items, item)]])

\* Table::insert_full(item): [ok, id, inserted, t]
IdTable_insert_full(t, item, size, align) ==
    IF item \in Range(t.items)
    THEN [ok |-> TRUE, id |-> IndexOf(t.items, item), inserted |-> FALSE, t |-> t]
    ELSE Bind(ArenaAllocator_allocate(t.arena, size, align), LAMBDA r :
            IF ~r.ok
            THEN [ok |-> FALSE, id |-> Len(t.items), inserted |-> FALSE, t |-> t]
            ELSE [ok |-> TRUE, id |-> Len(t.items), inserted |-> TRUE,
                  t |-> [arena |-> r.a, items |-> Append(t.items, item)]])

\* Table::len(): the number of entries of the map
IdTable_len(t) == Len(t.items)

\* Table::get_id(id): [out, item].  The assertion lets offset = len through:
\* the slot read was never written, and holds the zeroes of the fresh
\* region (`zeroed`) when it lies within the region; past the end of the
\* region the read faults or yields whatever is there (`junk`).
IdTable_get_id(t, id, size, zeroed, ub, junk) ==
    IF ~(id <= IdTable_len(t)) THEN [out |-> "panic", item |-> zeroed]
    ELSE IF id < IdTable_len(t) THEN [out |-> "ok", item |-> t.items[id + 1]]
    ELSE IF (id + 1) * size <= t.arena.len THEN [out |-> "ok", item |-> zeroed]
    ELSE IF ub = "fault" THEN [out |-> "fault", item |-> zeroed]
    ELSE [out |-> "ok", item |-> junk]

\* Table::iter(): the first len slots, in the order of the memory
IdTable_iter(t) == [i \in 1..IdTable_len(t) |-> t.items[i]]

\* tests::TestItem { name: StringId } and its Layout
TestItemSize == 4
TestItemAlign == 4
TestItem(name) == [name |-> name]

\* tests::TestItem::to_pprof over Table::to_pprof_vec(): ids from offset 0
TestItem_to_pprof_vec(t) ==
    [i \in 1..Len(IdTable_iter(t)) |-> [id |-> i - 1, name |-> IdTable_iter(t)[i].name]]

----------------------------------------------------------------------------
(* profile/internal: labels, label sets, samples, and the collections of   *)
(* the profile.                                                            *)

None == <<>>
Some(x) == <<x>>

\* Label::str(key, v) and Label::num(key, num, num_unit) (enum LabelValue)
Label_str(key, v) ==
    [key |-> key, tag |-> "Str", str |-> v, num |-> 0, num_unit |-> None]

Label_num(key, num, num_unit) ==
    [key |-> key, tag |-> "Num", str |-> 0, num |-> num, num_unit |-> num_unit]

\* sort_unstable on ids: ascending order
RECURSIVE InsertSorted(_, _)
InsertSorted(s, x) ==
    IF s = <<>> THEN <<x>>
    ELSE IF x <= Head(s) THEN <<x>> \o s
    ELSE <<Head(s)>> \o InsertSorted(Tail(s), x)

RECURSIVE sort_unstable(_)
sort_unstable(s) == IF s = <<>> THEN <<>> ELSE InsertSorted(sort_unstable(Tail(s)), Head(s))

\* LabelSet::new(v): the label ids, not sorted
LabelSet_new_unsorted(v) == v

\* LabelSet::new(v): the label ids sorted ascending
LabelSet_new(v) == sort_unstable(v)

\* Sample::new(labels, stacktrace)
Sample_new(labels, stacktrace) == [labels |-> labels, stacktrace |-> stacktrace]

\* FxIndexSet::dedup(item): the id of the item, inserted if new
Dedup(set, item) ==
    IF item \in Range(set)
    THEN [id |-> IndexOf(set, item), set |-> set]
    ELSE [id |-> Len(set), set |-> Append(set, item)]

\* Observations: aggregated (insertion-ordered map Sample -> values) and
\* timestamped (appended list of (Sample, Timestamp, values))
Observations_default == [aggregated |-> <<>>, timestamped |-> <<>>]

SumValues(a, b) == [i \in 1..Len(a) |-> a[i] + b[i]]

RECURSIVE Upsert(_, _, _)
Upsert(agg, sample, values) ==
    IF agg = <<>> THEN <<[sample |-> sample, values |-> values]>>
    ELSE IF Head(agg).sample = sample
    THEN <<[sample |-> sample, values |-> SumValues(Head(agg).values, values)]>>
         \o Tail(agg)
    ELSE <<Head(agg)>> \o Upsert(Tail(agg), sample, values)

\* Observations::add(sample, timestamp, values)
Observations_add(o, sample, timestamp, values) ==
    IF timestamp # None
    THEN [o EXCEPT !.timestamped =
            Append(@, [sample |-> sample, ts |-> timestamp[1], values |-> values])]
    ELSE [o EXCEPT !.aggregated = Upsert(@, sample, values)]

\* Observations::iter(): (Sample, Option<Timestamp>, values), aggregated first
Observations_iter(o) ==
    [i \in 1..Len(o.aggregated) |->
        [sample |-> o.aggregated[i].sample, ts |-> None,
         values |-> o.aggregated[i].values]]
    \o [i \in 1..Len(o.timestamped) |->
        [sample |-> o.timestamped[i].sample, ts |-> Some(o.timestamped[i].ts),
         values |-> o.timestamped[i].values]]

----------------------------------------------------------------------------
(* 64-bit span ids.  A u64 is four 16-bit limbs, most significant first;   *)
(* an i64 of the model is a small integer.                                 *)

U64(n) == <<0, 0, n \div Pow16, n % Pow16>>

RECURSIVE AddOne(_, _)
AddOne(limbs, i) ==
    IF i = 0 THEN limbs
    ELSE IF limbs[i] + 1 < Pow16 THEN [limbs EXCEPT ![i] = @ + 1]
    ELSE AddOne([limbs EXCEPT ![i] = 0], i - 1)

\* a conversion of the i64 that keeps its magnitude: id.unsigned_abs()
transmute_unsigned_abs(id) == U64(IF id >= 0 THEN id ELSE -id)

\* transmute::<i64, u64>(id): the two's complement bit pattern
transmute(id) ==
    IF id >= 0 THEN U64(id)
    ELSE LET m == U64(-id)
         IN  AddOne([i \in 1..4 |-> (Pow16 - 1) - m[i]], 4)

----------------------------------------------------------------------------
(* profile/mod.rs: the Profile.  `env` is [bld, ub]: the build and the     *)
(* outcome of a write past a region (see Table_alloc_slice).               *)

EmptyMap == <<>>
MapPut(m, k, v) == (k :> v) @@ m

\* layout of the internal Function, Mapping and Location (bytes)
FunctionSize == 24
MappingSize == 32
LocationSize == 24
ItemAlign == 8

NoProfile == [none |-> TRUE]

\* Profile::intern(item): [out, id, p]
intern(p, item, env) ==
    Bind(StringTable_insert_full(p.strings, item, env.bld, env.ub), LAMBDA r :
        [out |-> IF r.out \in {"ok", "overrun"} THEN "ok" ELSE r.out,
         id |-> r.id, p |-> [p EXCEPT !.strings = r.t]])

\* interning several strings in order, stopping at the first failure
RECURSIVE InternAll(_, _, _)
InternAll(p, strs, env) ==
    IF strs = <<>> THEN [out |-> "ok", ids |-> <<>>, p |-> p]
    ELSE Bind(intern(p, Head(strs), env), LAMBDA r :
            IF r.out # "ok" THEN [out |-> r.out, ids |-> <<>>, p |-> r.p]
            ELSE Bind(InternAll(r.p, Tail(strs), env), LAMBDA rest :
                    [out |-> rest.out, ids |-> <<r.id>> \o rest.ids, p |-> rest.p]))

\* Profile::get_string(id)
get_string(p, id) == StringTable_get_id(p.strings, id).str

\* the Profile of Profile::new before the reserved strings are interned
Profile_fields(start_time, limits, functions, locations, mappings, strings) ==
    [endpoints |-> [mappings |-> EmptyMap,
                    local_root_span_id_label |-> StringId_ZERO,
                    endpoint_label |-> StringId_ZERO,
                    stats |-> EmptyMap],
     functions |-> functions,
     labels |-> <<>>,
     label_sets |-> <<>>,
     locations |-> locations,
     mappings |-> mappings,
     observations |-> Observations_default,
     period |-> None,
     sample_types |-> <<>>,
     stack_traces |-> <<>>,
     start_time |-> start_time,
     strings |-> strings,
     timestamp_key |-> StringId_ZERO,
     upscaling_rules |-> [rules |-> EmptyMap],
     limits |-> limits]

\* Profile::new(start_time, limits) that interns "trace endpoint" before
\* "local root span id"
Profile_new_swapped(start_time, limits, os_ok, env) ==
    Bind(IdTable_with_arena_capacity(limits.functions_mem, FunctionSize, ItemAlign),
         LAMBDA functions :
    Bind(IdTable_with_arena_capacity(limits.locations_mem, LocationSize, ItemAlign),
         LAMBDA locations :
    Bind(IdTable_with_arena_capacity(limits.mappings_mem, MappingSize, ItemAlign),
         LAMBDA mappings :
    Bind(StringTable_with_capacity(limits.strings_mem, env.bld, env.ub),
         LAMBDA strings :
        IF ~os_ok \/ ~functions.ok \/ ~locations.ok \/ ~mappings.ok \/ strings.out = "alloc"
        THEN [out |-> "err", p |-> NoProfile]
        ELSE IF strings.out \notin {"ok", "overrun"}
        THEN [out |-> strings.out, p |-> NoProfile]
        ELSE
        Bind(InternAll(Profile_fields(start_time, limits, functions.t, locations.t,
                                      mappings.t, strings.t),
                       <<"", "trace endpoint", "local root span id", "end_timestamp_ns">>,
                       env), LAMBDA r :
            IF r.out # "ok" THEN [out |-> r.out, p |-> NoProfile]
            ELSE [out |-> "ok",
                  p |-> [r.p EXCEPT !.endpoints.local_root_span_id_label = r.ids[3],
                                    !.endpoints.endpoint_label = r.ids[2],
                                    !.timestamp_key = r.ids[4]]])))))

\* Profile::new(start_time, limits): [out, p].  os_ok: the OS grants the regions
Profile_new(start_time, limits, os_ok, env) ==
    Bind(IdTable_with_arena_capacity(limits.functions_mem, FunctionSize, ItemAlign),
         LAMBDA functions :
    Bind(IdTable_with_arena_capacity(limits.locations_mem, LocationSize, ItemAlign),
         LAMBDA locations :
    Bind(IdTable_with_arena_capacity(limits.mappings_mem, MappingSize, ItemAlign),
         LAMBDA mappings :
    Bind(StringTable_with_capacity(limits.strings_mem, env.bld, env.ub),
         LAMBDA strings :
        IF ~os_ok \/ ~functions.ok \/ ~locations.ok \/ ~mappings.ok \/ strings.out = "alloc"
        THEN [out |-> "err", p |-> NoProfile]
        ELSE IF strings.out \notin {"ok", "overrun"}
        THEN [out |-> strings.out, p |-> NoProfile]
        ELSE
        Bind(InternAll(Profile_fields(start_time, limits, functions.t, locations.t,
                                      mappings.t, strings.t),
                       <<"", "local root span id", "trace endpoint", "end_timestamp_ns">>,
                       env), LAMBDA r :
            IF r.out # "ok" THEN [out |-> r.out, p |-> NoProfile]
            ELSE [out |-> "ok",
                  p |-> [r.p EXCEPT !.endpoints.local_root_span_id_label = r.ids[2],
                                    !.endpoints.endpoint_label = r.ids[3],
                                    !.timestamp_key = r.ids[4]]])))))

\* interning the (type, unit) pairs of the sample types, in order
RECURSIVE InternValueTypes(_, _, _)
InternValueTypes(p, vts, env) ==
    IF vts = <<>> THEN [out |-> "ok", vts |-> <<>>, p |-> p]
    ELSE Bind(InternAll(p, <<Head(vts).type, Head(vts).unit>>, env), LAMBDA r :
            IF r.out # "ok" THEN [out |-> r.out, vts |-> <<>>, p |-> r.p]
            ELSE Bind(InternValueTypes(r.p, Tail(vts), env), LAMBDA rest :
                    [out |-> rest.out,
                     vts |-> <<[type |-> r.ids[1], unit |-> r.ids[2]]>> \o rest.vts,
                     p |-> rest.p]))

\* ProfileBuilder::build(): [out, p].  b = [period, sample_types, start_time,
\* limits]; `now` is SystemTime::now()
ProfileBuilder_build(b, now, os_ok, env) ==
    IF b.limits = None THEN [out |-> "err", p |-> NoProfile]
    ELSE
    Bind(Profile_new(IF b.start_time = None THEN now ELSE b.start_time[1],
                     b.limits[1], os_ok, env), LAMBDA n :
        IF n.out # "ok" THEN n
        ELSE
        Bind(InternValueTypes(n.p, b.sample_types, env), LAMBDA st :
            IF st.out # "ok" THEN [out |-> st.out, p |-> NoProfile]
            ELSE IF b.period = None
            THEN [out |-> "ok", p |-> [st.p EXCEPT !.sample_types = st.vts]]
            ELSE
            Bind(InternAll([st.p EXCEPT !.sample_types = st.vts],
                           <<b.period[1].type.type, b.period[1].type.unit>>, env),
                 LAMBDA pt :
                IF pt.out # "ok" THEN [out |-> pt.out, p |-> NoProfile]
                ELSE [out |-> "ok",
                      p |-> [pt.p EXCEPT !.period =
                               Some([value |-> b.period[1].value,
                                     type |-> [type |-> pt.ids[1],
                                               unit |-> pt.ids[2]]])]])))

\* Profile::add_function(function): [out, id, p]
add_function(p, function, env) ==
    Bind(InternAll(p, <<function.name, function.system_name, function.filename>>, env),
         LAMBDA r :
        IF r.out # "ok" THEN [out |-> r.out, id |-> 0, p |-> r.p]
        ELSE
        Bind(IdTable_insert_full(r.p.functions,
                [name |-> r.ids[1], system_name |-> r.ids[2],
                 filename |-> r.ids[3], start_line |-> function.start_line],
                FunctionSize, ItemAlign), LAMBDA t :
            IF ~t.ok THEN [out |-> "err", id |-> 0, p |-> r.p]
            ELSE [out |-> "ok", id |-> t.id, p |-> [r.p EXCEPT !.functions = t.t]]))

\* Profile::add_mapping(mapping): [out, id, p]
add_mapping(p, mapping, env) ==
    Bind(InternAll(p, <<mapping.filename, mapping.build_id>>, env), LAMBDA r :
        IF r.out # "ok" THEN [out |-> r.out, id |-> 0, p |-> r.p]
        ELSE
        Bind(IdTable_insert_full(r.p.mappings,
                [memory_start |-> mapping.memory_start,
                 memory_limit |-> mapping.memory_limit,
                 file_offset |-> mapping.file_offset,
                 filename |-> r.ids[1], build_id |-> r.ids[2]],
                MappingSize, ItemAlign), LAMBDA t :
            IF ~t.ok THEN [out |-> "err", id |-> 0, p |-> r.p]
            ELSE [out |-> "ok", id |-> t.id, p |-> [r.p EXCEPT !.mappings = t.t]]))

\* Profile::add_location(location): [out, id, p].  The mapping and the
\* function are both added before either result is looked at.
add_location(p, location, env) ==
    Bind(add_mapping(p, location.mapping, env), LAMBDA m :
        IF m.out \in {"panic", "fault"} THEN [out |-> m.out, id |-> 0, p |-> m.p]
        ELSE
        Bind(add_function(m.p, location.function, env), LAMBDA f :
            IF f.out \in {"panic", "fault"} THEN [out |-> f.out, id |-> 0, p |-> f.p]
            ELSE IF m.out # "ok" THEN [out |-> m.out, id |-> 0, p |-> f.p]
            ELSE IF f.out # "ok" THEN [out |-> f.out, id |-> 0, p |-> f.p]
            ELSE
            Bind(IdTable_insert_full(f.p.locations,
                    [mapping_id |-> m.id, function_id |-> f.id,
                     address |-> location.address, line |-> location.line],
                    LocationSize, ItemAlign), LAMBDA t :
                IF ~t.ok THEN [out |-> "err", id |-> 0, p |-> f.p]
                ELSE [out |-> "ok", id |-> t.id,
                      p |-> [f.p EXCEPT !.locations = t.t]])))

\* sample.locations.iter().map(add_location).collect::<Result<Vec<_>, _>>():
\* stops at the first error
RECURSIVE add_locations(_, _, _)
add_locations(p, locations, env) ==
    IF locations = <<>> THEN [out |-> "ok", ids |-> <<>>, p |-> p]
    ELSE Bind(add_location(p, Head(locations), env), LAMBDA r :
            IF r.out # "ok" THEN [out |-> r.out, ids |-> <<>>, p |-> r.p]
            ELSE Bind(add_locations(r.p, Tail(locations), env), LAMBDA rest :
                    [out |-> rest.out, ids |-> <<r.id>> \o rest.ids, p |-> rest.p]))

\* Profile::add_stacktrace(locations) that never finds the stack trace
add_stacktrace_push(p, locations) ==
    [id |-> Len(p.stack_traces),
     p |-> [p EXCEPT !.stack_traces = Append(@, [locations |-> locations])]]

\* Profile::add_stacktrace(locations): [id, p]
add_stacktrace(p, locations) ==
    Bind(Dedup(p.stack_traces, [locations |-> locations]), LAMBDA d :
        [id |-> d.id, p |-> [p EXCEPT !.stack_traces = d.set]])

\* the first label of the sample with the given key
RECURSIVE FindKey(_, _)
FindKey(labels, key) ==
    IF labels = <<>> THEN None
    ELSE IF Head(labels).key = key THEN Some(Head(labels))
    ELSE FindKey(Tail(labels), key)

\* Profile::extract_timestamp(sample) that never finds a timestamp
extract_timestamp_none(sample) == [out |-> "ok", ts |-> None]

\* Profile::extract_timestamp(sample): [out, ts]
extract_timestamp(sample) ==
    Bind(FindKey(sample.labels, "end_timestamp_ns"), LAMBDA l :
        IF l = None THEN [out |-> "ok", ts |-> None]
        ELSE IF l[1].str # None THEN [out |-> "err", ts |-> None]
        ELSE IF l[1].num = 0 THEN [out |-> "err", ts |-> None]
        ELSE IF l[1].num_unit # None THEN [out |-> "err", ts |-> None]
        ELSE [out |-> "ok", ts |-> Some(l[1].num)])

\* the value of an api label once interned: [out, id, p]
intern_label_value(p, label, env) ==
    IF label.str # None THEN intern(p, label.str[1], env)
    ELSE IF label.num_unit # None THEN intern(p, label.num_unit[1], env)
    ELSE [out |-> "ok", id |-> 0, p |-> p]

\* the internal label of an api label, given the ids of its strings
internal_label_of(label, key_id, value_id) ==
    IF label.str # None THEN Label_str(key_id, value_id)
    ELSE Label_num(key_id, label.num,
                   IF label.num_unit = None THEN None ELSE Some(value_id))

\* the three checks on a label with the key "local root span id", without
\* the check that it is the first one
lrsi_label_ok_any(lrsi, label) == label.str = None /\ label.num # 0

\* the checks on a label with the key "local root span id", without the
\* checks of its value
lrsi_label_ok_first(lrsi, label) == lrsi = None

\* the three checks on a label with the key "local root span id": it is the
\* first one of the sample, a number, and not 0
lrsi_label_ok(lrsi, label) == lrsi = None /\ label.str = None /\ label.num # 0

\* the loop of extract_sample_labels over sample.labels:
\* [out, labels, p]; lrsi is local_root_span_id_label
RECURSIVE labels_loop(_, _, _, _, _)
labels_loop(p, todo, labels, lrsi, env) ==
    IF todo = <<>> THEN [out |-> "ok", labels |-> labels, p |-> p]
    ELSE IF Head(todo).key = "end_timestamp_ns"
    THEN labels_loop(p, Tail(todo), labels, lrsi, env)
    ELSE
    Bind(intern(p, Head(todo).key, env), LAMBDA k :
        IF k.out # "ok" THEN [out |-> k.out, labels |-> labels, p |-> k.p]
        ELSE
        Bind(intern_label_value(k.p, Head(todo), env), LAMBDA v :
            IF v.out # "ok" THEN [out |-> v.out, labels |-> labels, p |-> v.p]
            ELSE
            Bind(Dedup(v.p.labels, internal_label_of(Head(todo), k.id, v.id)), LAMBDA d :
                IF k.id = v.p.endpoints.local_root_span_id_label
                THEN IF ~lrsi_label_ok(lrsi, Head(todo))
                     THEN [out |-> "err", labels |-> labels,
                           p |-> [v.p EXCEPT !.labels = d.set]]
                     ELSE labels_loop([v.p EXCEPT !.labels = d.set], Tail(todo),
                                      Append(labels, d.id), Some(d.id), env)
                ELSE labels_loop([v.p EXCEPT !.labels = d.set], Tail(todo),
                                 Append(labels, d.id), lrsi, env))))

\* Profile::extract_sample_labels(sample) that drops the labels
extract_sample_labels_empty(p, sample, env) ==
    Bind(extract_timestamp(sample), LAMBDA t :
    Bind(Dedup(p.label_sets, [sorted_labels |-> LabelSet_new(<<>>)]), LAMBDA d :
        [out |-> t.out, label_set_id |-> d.id, timestamp |-> t.ts,
         p |-> IF t.out = "ok" THEN [p EXCEPT !.label_sets = d.set] ELSE p]))

\* Profile::extract_sample_labels(sample): [out, label_set_id, timestamp, p]
extract_sample_labels(p, sample, env) ==
    Bind(extract_timestamp(sample), LAMBDA t :
        IF t.out # "ok"
        THEN [out |-> t.out, label_set_id |-> 0, timestamp |-> None, p |-> p]
        ELSE
        Bind(labels_loop(p, sample.labels, <<>>, None, env), LAMBDA l :
            IF l.out # "ok"
            THEN [out |-> l.out, label_set_id |-> 0, timestamp |-> None, p |-> l.p]
            ELSE
            Bind(Dedup(l.p.label_sets, [sorted_labels |-> LabelSet_new(l.labels)]),
                 LAMBDA d :
                [out |-> "ok", label_set_id |-> d.id, timestamp |-> t.ts,
                 p |-> [l.p EXCEPT !.label_sets = d.set]])))

\* Profile::add(sample) that compares the number of values with the number of
\* sample types after the labels are extracted
add_arity_last(p, sample, env) ==
    Bind(extract_sample_labels(p, sample, env), LAMBDA e :
        IF e.out # "ok"
        THEN [out |-> e.out, sample |-> Sample_new(0, 0), timestamp |-> None, p |-> e.p]
        ELSE IF Len(sample.values) # Len(p.sample_types)
        THEN [out |-> "err", sample |-> Sample_new(0, 0), timestamp |-> None, p |-> e.p]
        ELSE
        Bind(add_locations(e.p, sample.locations, env), LAMBDA l :
            IF l.out # "ok"
            THEN [out |-> l.out, sample |-> Sample_new(0, 0), timestamp |-> None,
                  p |-> l.p]
            ELSE
            Bind(add_stacktrace(l.p, l.ids), LAMBDA st :
                [out |-> "ok", sample |-> Sample_new(e.label_set_id, st.id),
                 timestamp |-> e.timestamp,
                 p |-> [st.p EXCEPT !.observations =
                          Observations_add(@, Sample_new(e.label_set_id, st.id),
                                           e.timestamp, sample.values)]])))

\* Profile::add(sample): [out, sample, timestamp, p]
add(p, sample, env) ==
    IF Len(sample.values) # Len(p.sample_types)
    THEN [out |-> "err", sample |-> Sample_new(0, 0), timestamp |-> None, p |-> p]
    ELSE
    Bind(extract_sample_labels(p, sample, env), LAMBDA e :
        IF e.out # "ok"
        THEN [out |-> e.out, sample |-> Sample_new(0, 0), timestamp |-> None, p |-> e.p]
        ELSE
        Bind(add_locations(e.p, sample.locations, env), LAMBDA l :
            IF l.out # "ok"
            THEN [out |-> l.out, sample |-> Sample_new(0, 0), timestamp |-> None,
                  p |-> l.p]
            ELSE
            Bind(add_stacktrace(l.p, l.ids), LAMBDA st :
                [out |-> "ok", sample |-> Sample_new(e.label_set_id, st.id),
                 timestamp |-> e.timestamp,
                 p |-> [st.p EXCEPT !.observations =
                          Observations_add(@, Sample_new(e.label_set_id, st.id),
                                           e.timestamp, sample.values)]])))

\* Profile::add_endpoint(local_root_span_id, endpoint) that leaves the
\* mappings alone once the profile holds an observation
add_endpoint_before_samples(p, local_root_span_id, endpoint, env) ==
    Bind(intern(p, endpoint, env), LAMBDA r :
        IF r.out # "ok" THEN [out |-> r.out, p |-> r.p]
        ELSE [out |-> "ok",
              p |-> IF Observations_iter(p.observations) # <<>> THEN r.p
                    ELSE [r.p EXCEPT !.endpoints.mappings =
                            MapPut(@, local_root_span_id, r.id)]])

\* Profile::add_endpoint(local_root_span_id, endpoint): [out, p]
add_endpoint(p, local_root_span_id, endpoint, env) ==
    Bind(intern(p, endpoint, env), LAMBDA r :
        IF r.out # "ok" THEN [out |-> r.out, p |-> r.p]
        ELSE [out |-> "ok",
              p |-> [r.p EXCEPT !.endpoints.mappings =
                       MapPut(@, local_root_span_id, r.id)]])

\* ProfiledEndpointsStats::add_endpoint_count(endpoint_name, value): the
\* count of the endpoint grows by value, a new endpoint starting from value
ProfiledEndpointsStats_add_endpoint_count(stats, endpoint_name, value) ==
    MapPut(stats, endpoint_name,
           (IF endpoint_name \in DOMAIN stats THEN stats[endpoint_name] ELSE 0) + value)

\* Profile::add_endpoint_count(endpoint, value) that stores the value given
\* last
add_endpoint_count_overwrite(p, endpoint, value) ==
    [p EXCEPT !.endpoints.stats = MapPut(@, endpoint, value)]

\* Profile::add_endpoint_count(endpoint, value)
add_endpoint_count(p, endpoint, value) ==
    [p EXCEPT !.endpoints.stats =
        ProfiledEndpointsStats_add_endpoint_count(@, endpoint, value)]

\* UpscalingInfo::check_validity(number_of_values)
check_validity(info, number_of_values) ==
    IF info.tag = "Poisson"
    THEN /\ info.sum_value_offset < number_of_values
         /\ info.count_value_offset < number_of_values
         /\ info.sampling_distance # 0
    ELSE TRUE

\* the key of the by-value rules: the empty label name and value
ByValueKey == <<StringId_ZERO, StringId_ZERO>>

\* offsets targeted by the rules stored under the given keys
OffsetsOf(rules, keys) ==
    UNION {UNION {Range(rules[k][i].values_offset) : i \in 1..Len(rules[k])} : k \in keys}

\* UpscalingRules::check_collisions(values_offset, label_name, label_value, info)
check_collisions(ur, values_offset, label_name_id, label_value_id) ==
    /\ (<<label_name_id, label_value_id>> \in DOMAIN ur.rules
          => OffsetsOf(ur.rules, {<<label_name_id, label_value_id>>})
               \cap Range(values_offset) = {})
    /\ IF <<label_name_id, label_value_id>> = ByValueKey
       THEN OffsetsOf(ur.rules, DOMAIN ur.rules \ {ByValueKey})
              \cap Range(values_offset) = {}
       ELSE OffsetsOf(ur.rules, DOMAIN ur.rules \cap {ByValueKey})
              \cap Range(values_offset) = {}

\* UpscalingRules::add(label_name_id, label_value_id, rule)
UpscalingRules_add(ur, label_name_id, label_value_id, rule) ==
    [ur EXCEPT !.rules =
        MapPut(@, <<label_name_id, label_value_id>>,
               IF <<label_name_id, label_value_id>> \in DOMAIN @
               THEN Append(@[<<label_name_id, label_value_id>>], rule)
               ELSE <<rule>>)]

\* the error of the offset check of add_upscaling_rule: its message is built
\* from sample_types.len() - 1, which underflows when there is no sample type
\* (a panic where overflow is checked, a wrapped number otherwise)
offset_error(p, env) ==
    IF Len(p.sample_types) = 0 /\ env.bld = "debug"
    THEN [out |-> "panic", p |-> p]
    ELSE [out |-> "err", p |-> p]

\* Profile::add_upscaling_rule without the collision check
add_upscaling_rule_unchecked(p, offset_values, label_name, label_value, upscaling_info, env) ==
    IF \E i \in 1..Len(offset_values) : ~(offset_values[i] < Len(p.sample_types))
    THEN offset_error(p, env)
    ELSE
    Bind(InternAll(p, <<label_name, label_value>>, env), LAMBDA r :
        IF r.out # "ok" THEN [out |-> r.out, p |-> r.p]
        ELSE IF ~check_validity(upscaling_info, Len(r.p.sample_types))
        THEN [out |-> "err", p |-> r.p]
        ELSE [out |-> "ok",
              p |-> [r.p EXCEPT !.upscaling_rules =
                       UpscalingRules_add(@, r.ids[1], r.ids[2],
                           [values_offset |-> sort_unstable(offset_values),
                            info |-> upscaling_info])]])

\* Profile::add_upscaling_rule that checks the new rule only against the
\* rules of the same label name and value
add_upscaling_rule_same_key(p, offset_values, label_name, label_value, upscaling_info, env) ==
    IF \E i \in 1..Len(offset_values) : ~(offset_values[i] < Len(p.sample_types))
    THEN offset_error(p, env)
    ELSE
    Bind(InternAll(p, <<label_name, label_value>>, env), LAMBDA r :
        IF r.out # "ok" THEN [out |-> r.out, p |-> r.p]
        ELSE IF <<r.ids[1], r.ids[2]>> \in DOMAIN r.p.upscaling_rules.rules
                /\ OffsetsOf(r.p.upscaling_rules.rules, {<<r.ids[1], r.ids[2]>>})
                     \cap Range(offset_values) # {}
        THEN [out |-> "err", p |-> r.p]
        ELSE IF ~check_validity(upscaling_info, Len(r.p.sample_types))
        THEN [out |-> "err", p |-> r.p]
        ELSE [out |-> "ok",
              p |-> [r.p EXCEPT !.upscaling_rules =
                       UpscalingRules_add(@, r.ids[1], r.ids[2],
                           [values_offset |-> sort_unstable(offset_values),
                            info |-> upscaling_info])]])

\* Profile::add_upscaling_rule(offset_values, label_name, label_value, info): [out, p]
add_upscaling_rule(p, offset_values, label_name, label_value, upscaling_info, env) ==
    IF \E i \in 1..Len(offset_values) : ~(offset_values[i] < Len(p.sample_types))
    THEN offset_error(p, env)
    ELSE
    Bind(InternAll(p, <<label_name, label_value>>, env), LAMBDA r :
        IF r.out # "ok" THEN [out |-> r.out, p |-> r.p]
        ELSE IF ~check_collisions(r.p.upscaling_rules, sort_unstable(offset_values),
                                  r.ids[1], r.ids[2])
        THEN [out |-> "err", p |-> r.p]
        ELSE IF ~check_validity(upscaling_info, Len(r.p.sample_types))
        THEN [out |-> "err", p |-> r.p]
        ELSE [out |-> "ok",
              p |-> [r.p EXCEPT !.upscaling_rules =
                       UpscalingRules_add(@, r.ids[1], r.ids[2],
                           [values_offset |-> sort_unstable(offset_values),
                            info |-> upscaling_info])]])

\* Profile::extract_api_sample_types()
extract_api_sample_types(p) ==
    [i \in 1..Len(p.sample_types) |->
        [type |-> get_string(p, p.sample_types[i].type),
         unit |-> get_string(p, p.sample_types[i].unit)]]

\* the period of the profile as the api's Period
extract_api_period(p) ==
    IF p.period = None THEN None
    ELSE Some([type |-> [type |-> get_string(p, p.period[1].type.type),
                         unit |-> get_string(p, p.period[1].type.unit)],
               value |-> p.period[1].value])

\* Profile::reset(start_time) that keeps the collections of the profile
reset_keep(p, start_time, now, os_ok, env) ==
    IF os_ok
    THEN [out |-> "ok",
          p |-> [p EXCEPT !.start_time = IF start_time = None THEN now ELSE start_time[1]],
          old |-> p]
    ELSE [out |-> "err", p |-> p, old |-> NoProfile]

\* Profile::reset(start_time) that empties the observations of the profile
\* before it builds the new one
reset_clear_first(p, start_time, now, os_ok, env) ==
    Bind(ProfileBuilder_build([period |-> extract_api_period(p),
                               sample_types |-> extract_api_sample_types(p),
                               start_time |-> start_time,
                               limits |-> Some(p.limits)], now, os_ok, env), LAMBDA b :
        IF b.out # "ok"
        THEN [out |-> b.out, p |-> [p EXCEPT !.observations = Observations_default],
              old |-> NoProfile]
        ELSE [out |-> "ok", p |-> b.p, old |-> p])

\* Profile::reset(start_time): [out, p, old]
reset(p, start_time, now, os_ok, env) ==
    Bind(ProfileBuilder_build([period |-> extract_api_period(p),
                               sample_types |-> extract_api_sample_types(p),
                               start_time |-> start_time,
                               limits |-> Some(p.limits)], now, os_ok, env), LAMBDA b :
        IF b.out # "ok" THEN [out |-> b.out, p |-> p, old |-> NoProfile]
        ELSE [out |-> "ok", p |-> b.p, old |-> p])

\* ddog_prof_Profile_reset(profile, start_time): [ok, out, p]; start_time is
\* the SystemTime made from the Timespec of the caller, and the profile that
\* reset returns is dropped
ddog_prof_Profile_reset(p, start_time, now, os_ok, env) ==
    Bind(reset(p, start_time, now, os_ok, env), LAMBDA r :
        [ok |-> r.out = "ok", out |-> r.out, p |-> r.p])

----------------------------------------------------------------------------
(* Serialization: profile/mod.rs, internal/label.rs, and the upscaling of  *)
(* values.                                                                 *)

\* From<&Label> for pprof::Label
pprof_Label_from(l) ==
    IF l.tag = "Str"
    THEN [key |-> l.key, str |-> l.str, num |-> 0, num_unit |-> 0]
    ELSE [key |-> l.key, str |-> 0, num |-> l.num,
          num_unit |-> IF l.num_unit = None THEN 0 ELSE l.num_unit[1]]

\* Profile::get_label(id), Profile::get_label_set(id), Profile::get_stacktrace(st)
get_label(p, id) == p.labels[id + 1]
get_label_set(p, id) == p.label_sets[id + 1]
get_stacktrace(p, st) == p.stack_traces[st + 1]

\* the endpoint label of a span id, if the span id has an endpoint
endpoint_label_of(p, local_root_span_id) ==
    IF local_root_span_id \in DOMAIN p.endpoints.mappings
    THEN Some(Label_str(p.endpoints.endpoint_label,
                        p.endpoints.mappings[local_root_span_id]))
    ELSE None

\* Profile::get_endpoint_for_label(label) that drops the sign of the number
get_endpoint_for_label_signed(p, label) ==
    IF label.key # p.endpoints.local_root_span_id_label \/ label.tag # "Num"
    THEN [out |-> "err", label |-> None]
    ELSE [out |-> "ok",
          label |-> endpoint_label_of(p, U64(IF label.num >= 0 THEN label.num
                                             ELSE -label.num))]

\* Profile::get_endpoint_for_label(label): [out, label]
get_endpoint_for_label(p, label) ==
    IF label.key # p.endpoints.local_root_span_id_label
    THEN [out |-> "err", label |-> None]
    ELSE IF label.tag # "Num"
    THEN [out |-> "err", label |-> None]
    ELSE [out |-> "ok", label |-> endpoint_label_of(p, transmute(label.num))]

\* the first label of the set with the key "local root span id"
RECURSIVE FindLrsi(_, _)
FindLrsi(p, ids) ==
    IF ids = <<>> THEN None
    ELSE IF get_label(p, Head(ids)).key = p.endpoints.local_root_span_id_label
    THEN Some(get_label(p, Head(ids)))
    ELSE FindLrsi(p, Tail(ids))

\* Profile::get_endpoint_for_labels(label_set_id): [out, label]
get_endpoint_for_labels(p, label_set_id) ==
    Bind(FindLrsi(p, get_label_set(p, label_set_id).sorted_labels), LAMBDA label :
        IF label # None THEN get_endpoint_for_label(p, label[1])
        ELSE [out |-> "ok", label |-> None])

\* Profile::translate_and_enrich_sample_labels(sample, timestamp) that
\* chains the timestamp label before the endpoint label
translate_and_enrich_timestamp_first(p, sample, timestamp) ==
    Bind(get_label_set(p, sample.labels).sorted_labels, LAMBDA ids :
    Bind(get_endpoint_for_labels(p, sample.labels), LAMBDA e :
        IF e.out # "ok" THEN [out |-> e.out, labels |-> <<>>]
        ELSE [out |-> "ok",
              labels |->
                [i \in 1..Len(ids) |-> pprof_Label_from(get_label(p, ids[i]))]
                \o (IF timestamp = None THEN <<>>
                    ELSE <<pprof_Label_from(Label_num(p.timestamp_key, timestamp[1],
                                                      None))>>)
                \o (IF e.label = None THEN <<>> ELSE <<pprof_Label_from(e.label[1])>>)]))

\* Profile::translate_and_enrich_sample_labels(sample, timestamp): [out, labels]
translate_and_enrich_sample_labels(p, sample, timestamp) ==
    Bind(get_label_set(p, sample.labels).sorted_labels, LAMBDA ids :
    Bind(get_endpoint_for_labels(p, sample.labels), LAMBDA e :
        IF e.out # "ok" THEN [out |-> e.out, labels |-> <<>>]
        ELSE [out |-> "ok",
              labels |->
                [i \in 1..Len(ids) |-> pprof_Label_from(get_label(p, ids[i]))]
                \o (IF e.label = None THEN <<>> ELSE <<pprof_Label_from(e.label[1])>>)
                \o (IF timestamp = None THEN <<>>
                    ELSE <<pprof_Label_from(Label_num(p.timestamp_key, timestamp[1],
                                                      None))>>)]))

\* f64 round of a / b (b > 0): to nearest, halves away from zero
RoundDiv(a, b) ==
    IF a >= 0 THEN (2 * a + b) \div (2 * b) ELSE -((2 * (-a) + b) \div (2 * b))

\* fixed point of the Poisson scale: millionths
Micro == 1000000
\* number of terms of the series of exp
ExpTerms == 12

\* exp(-s / q) in millionths, by its series (s >= 0, q > 0)
RECURSIVE ExpSeries(_, _, _, _, _)
ExpSeries(s, q, n, term, sign) ==
    IF n > ExpTerms \/ term = 0 THEN 0
    ELSE sign * term + ExpSeries(s, q, n + 1, (term * s) \div (q * (n + 1)), -sign)

ExpNegMicro(s, q) == ExpSeries(s, q, 0, Micro, 1)

\* UpscalingRule::compute_scale(values) that looks only at the sum for the
\* zero case, and divides by a count of at least 1
compute_scale_sum_only(rule, values) ==
    IF rule.info.tag = "Proportional"
    THEN [num |-> rule.info.scale_num, den |-> rule.info.scale_den]
    ELSE IF values[rule.info.sum_value_offset + 1] = 0
    THEN [num |-> 1, den |-> 1]
    ELSE [num |-> Micro,
          den |-> Micro - ExpNegMicro(values[rule.info.sum_value_offset + 1],
                                      Max(values[rule.info.count_value_offset + 1], 1)
                                        * rule.info.sampling_distance)]

\* UpscalingRule::compute_scale(values): the scale as [num, den].  For
\* Poisson it is 1 / (1 - exp(-(sum / count) / sampling_distance)), the
\* arithmetic that turns the values [1, 16, 29] into [1, 298, 29] with sum
\* offset 1, count offset 2 and sampling distance 10
compute_scale(rule, values) ==
    IF rule.info.tag = "Proportional"
    THEN [num |-> rule.info.scale_num, den |-> rule.info.scale_den]
    ELSE IF values[rule.info.sum_value_offset + 1] = 0
            \/ values[rule.info.count_value_offset + 1] = 0
    THEN [num |-> 1, den |-> 1]
    ELSE [num |-> Micro,
          den |-> Micro - ExpNegMicro(values[rule.info.sum_value_offset + 1],
                                      values[rule.info.count_value_offset + 1]
                                        * rule.info.sampling_distance)]

\* the scale applied to the first offset of the rule only
ApplyOffsets_first(values, offsets, scale) ==
    IF offsets = <<>> THEN values
    ELSE [values EXCEPT ![Head(offsets) + 1] = RoundDiv(@ * scale.num, scale.den)]

\* the scale applied to each offset of the rule
RECURSIVE ApplyOffsets(_, _, _)
ApplyOffsets(values, offsets, scale) ==
    IF offsets = <<>> THEN values
    ELSE ApplyOffsets([values EXCEPT ![Head(offsets) + 1] =
                          RoundDiv(@ * scale.num, scale.den)],
                      Tail(offsets), scale)

\* the rules applied in order; every scale is computed from the given values
RECURSIVE ApplyRules(_, _, _)
ApplyRules(new_values, rules, values) ==
    IF rules = <<>> THEN new_values
    ELSE ApplyRules(ApplyOffsets(new_values, Head(rules).values_offset,
                                 compute_scale(Head(rules), values)),
                    Tail(rules), values)

\* the rules of each label of the sample, found by the key of the label alone
RECURSIVE GroupsOfLabels_key_only(_, _)
GroupsOfLabels_key_only(ur, labels) ==
    IF labels = <<>> THEN <<>>
    ELSE (IF \E k \in DOMAIN ur.rules : k[1] = Head(labels).key
          THEN ur.rules[CHOOSE k \in DOMAIN ur.rules : k[1] = Head(labels).key]
          ELSE <<>>)
         \o GroupsOfLabels_key_only(ur, Tail(labels))

\* the rules of each label of the sample that has some, in label order
RECURSIVE GroupsOfLabels(_, _)
GroupsOfLabels(ur, labels) ==
    IF labels = <<>> THEN <<>>
    ELSE (IF <<Head(labels).key, Head(labels).str>> \in DOMAIN ur.rules
          THEN ur.rules[<<Head(labels).key, Head(labels).str>>] ELSE <<>>)
         \o GroupsOfLabels(ur, Tail(labels))

\* UpscalingRules::upscale_values(values, labels, sample_types)
upscale_values(ur, values, labels) ==
    IF DOMAIN ur.rules = {} THEN values
    ELSE ApplyRules(values,
                    GroupsOfLabels(ur, labels)
                    \o (IF ByValueKey \in DOMAIN ur.rules THEN ur.rules[ByValueKey]
                        ELSE <<>>),
                    values)

\* A Duration is <<g, s, n>>: g * 10^9 + s whole seconds and n nanoseconds,
\* s and n below 10^9.  Its as_nanos() is g * 10^18 + s * 10^9 + n, which the
\* same triple spells in base 10^9; an i64 of nanoseconds that is not
\* negative is such a triple too.
Duration_ZERO == <<0, 0, 0>>

\* Duration::from_nanos(nanos)
Duration_from_nanos(nanos) == <<0, nanos \div 1000000000, nanos % 1000000000>>

\* i64::MAX = 9223372036854775807
i64_MAX == <<9, 223372036, 854775807>>

\* a < b for two numbers in base 10^9
LessNanos(a, b) ==
    \/ a[1] < b[1]
    \/ a[1] = b[1] /\ a[2] < b[2]
    \/ a[1] = b[1] /\ a[2] = b[2] /\ a[3] < b[3]

\* as_nanos().min(i64::MAX as u128) as i64
clamp_i64(d) == IF LessNanos(i64_MAX, d) THEN i64_MAX ELSE d

\* SystemTime::duration_since(earlier): None is the Err of a time before
\* earlier; times are nanoseconds since the epoch
duration_since(time, earlier) ==
    IF time >= earlier THEN Some(Duration_from_nanos(time - earlier)) ELSE None

\* the duration_nanos of serialize that never reads the clock difference
serialize_duration_nanos_given_only(start, end, duration) ==
    clamp_i64(IF duration # None THEN duration[1] ELSE Duration_ZERO)

\* the duration_nanos that serialize writes into the pprof profile
serialize_duration_nanos(start, end, duration) ==
    clamp_i64(IF duration # None THEN duration[1]
              ELSE IF duration_since(end, start) # None
              THEN duration_since(end, start)[1]
              ELSE Duration_ZERO)

\* MappingId, LocationId, FunctionId ::to_raw_id(): the offset plus one, 0
\* being no id on the wire
to_raw_id(offset) == offset + 1

\* Table::to_pprof_vec() that goes through the items from the last one
to_pprof_vec_from_last(t) ==
    [i \in 1..Len(t.items) |->
        [id |-> to_raw_id(i - 1), item |-> t.items[Len(t.items) - i + 1]]]

\* Table::to_pprof_vec(): the items in insertion order, the item at index
\* (offset) i - 1 with the id made from_offset(i - 1)
to_pprof_vec(t) ==
    [i \in 1..Len(IdTable_iter(t)) |->
        [id |-> to_raw_id(i - 1), item |-> IdTable_iter(t)[i]]]

\* the pprof::Sample of one observation: [out, sample]
pprof_Sample_of(p, o) ==
    Bind(translate_and_enrich_sample_labels(p, o.sample, o.ts), LAMBDA l :
        [out |-> l.out,
         sample |->
            [location_ids |->
                [j \in 1..Len(get_stacktrace(p, o.sample.stacktrace).locations)
                   |-> to_raw_id(get_stacktrace(p, o.sample.stacktrace).locations[j])],
             values |-> upscale_values(p.upscaling_rules, o.values, l.labels),
             labels |-> l.labels]])

\* TryFrom<&Profile> for pprof::Profile: [out, profile]
pprof_Profile_try_from(p) ==
    Bind([i \in 1..Len(Observations_iter(p.observations)) |->
            pprof_Sample_of(p, Observations_iter(p.observations)[i])], LAMBDA samples :
        IF \E i \in 1..Len(samples) : samples[i].out # "ok"
        THEN [out |-> "err", profile |-> NoProfile]
        ELSE [out |-> "ok",
              profile |->
                [sample_types |-> p.sample_types,
                 samples |-> [i \in 1..Len(samples) |-> samples[i].sample],
                 mappings |-> to_pprof_vec(p.mappings),
                 locations |-> to_pprof_vec(p.locations),
                 functions |-> to_pprof_vec(p.functions),
                 string_table |-> p.strings.vec,
                 time_nanos |-> IF duration_since(p.start_time, 0) = None
                                THEN Duration_ZERO
                                ELSE clamp_i64(duration_since(p.start_time, 0)[1]),
                 period |-> IF p.period = None THEN 0 ELSE p.period[1].value,
                 period_type |-> IF p.period = None THEN None ELSE Some(p.period[1].type),
                 duration_nanos |-> Duration_ZERO]])

\* Profile::serialize(end_time, duration) that takes the observations out of
\* the profile
serialize_drain(p, end_time, duration, now) ==
    Bind(pprof_Profile_try_from(p), LAMBDA r :
        [out |-> r.out, start |-> p.start_time,
         end |-> IF end_time = None THEN now ELSE end_time[1],
         profile |-> IF r.out # "ok" THEN NoProfile
                     ELSE [r.profile EXCEPT !.duration_nanos =
                             serialize_duration_nanos(p.start_time,
                                 IF end_time = None THEN now ELSE end_time[1],
                                 duration)],
         endpoints_stats |-> IF r.out # "ok" THEN EmptyMap ELSE p.endpoints.stats,
         self |-> [p EXCEPT !.observations = Observations_default]])

\* Profile::serialize(end_time, duration):
\* [out, start, end, profile, endpoints_stats, self]; self is the Profile
\* after the call (serialize borrows it as &self)
serialize(p, end_time, duration, now) ==
    Bind(pprof_Profile_try_from(p), LAMBDA r :
        IF r.out # "ok"
        THEN [out |-> r.out, start |-> p.start_time,
              end |-> IF end_time = None THEN now ELSE end_time[1],
              profile |-> NoProfile, endpoints_stats |-> EmptyMap, self |-> p]
        ELSE [out |-> "ok", start |-> p.start_time, self |-> p,
              end |-> IF end_time = None THEN now ELSE end_time[1],
              profile |-> [r.profile EXCEPT !.duration_nanos =
                             serialize_duration_nanos(p.start_time,
                                 IF end_time = None THEN now ELSE end_time[1],
                                 duration)],
              endpoints_stats |-> p.endpoints.stats])

\* ddog_prof_Profile_serialize(profile, end_time, duration_nanos): end_time
\* is the SystemTime made from the Timespec of the caller, duration_nanos
\* the i64 behind the pointer, None for a null pointer
ddog_prof_Profile_serialize(p, end_time, duration_nanos, now) ==
    serialize(p, end_time,
              IF duration_nanos = None THEN None
              ELSE IF duration_nanos[1] < 0 THEN None
              ELSE Some(Duration_from_nanos(duration_nanos[1])),
              now)

----------------------------------------------------------------------------
(* The inputs of the model.                                                *)

UB == {"fault", "overrun"}

StrPool == {"", "a", "bb", "ccc", "dddd"}

ApiLabel(key, str, num, num_unit) ==
    [key |-> key, str |-> str, num |-> num, num_unit |-> num_unit]

LPid   == ApiLabel("pid", None, 101, None)
LThr   == ApiLabel("thread", Some("a"), 0, None)
LSize  == ApiLabel("size", None, 4, Some("bytes"))
LEp    == ApiLabel("trace endpoint", Some("mine"), 0, None)
LSpan1 == ApiLabel("local root span id", None, 1, None)
LSpan2 == ApiLabel("local root span id", None, 2, None)
LSpanM == ApiLabel("local root span id", None, -1, None)
LSpan0 == ApiLabel("local root span id", None, 0, None)
LSpanS == ApiLabel("local root span id", Some("1"), 0, None)
LTs1   == ApiLabel("end_timestamp_ns", None, 42, None)
LTs2   == ApiLabel("end_timestamp_ns", None, 43, None)
LTs0   == ApiLabel("end_timestamp_ns", None, 0, None)
LTsS   == ApiLabel("end_timestamp_ns", Some("42"), 0, None)
LTsU   == ApiLabel("end_timestamp_ns", None, 42, Some("ns"))

ApiMapping == [memory_start |-> 0, memory_limit |-> 0, file_offset |-> 0,
               filename |-> "php", build_id |-> ""]
ApiFunction(name) == [name |-> name, system_name |-> name,
                      filename |-> "index.php", start_line |-> 0]
ApiLocation(name, line) == [mapping |-> ApiMapping, function |-> ApiFunction(name),
                            address |-> 0, line |-> line]
Main == ApiLocation("main", 0)
Test == ApiLocation("test", 0)
Main3 == ApiLocation("main", 3)

ApiSample(locations, values, labels) ==
    [locations |-> locations, values |-> values, labels |-> labels]

SampleTypes == <<[type |-> "samples", unit |-> "count"],
                 [type |-> "wall-time", unit |-> "nanoseconds"]>>
Period == [type |-> [type |-> "cpu", unit |-> "nanoseconds"], value |-> 7]

Limits == [functions_mem |-> FunctionsMem, locations_mem |-> LocationsMem,
           mappings_mem |-> MappingsMem, strings_mem |-> StringsMem]

\* the samples of the aggregation specification
AddSamples ==
    { ApiSample(<<Main>>, <<1, 10>>, <<>>),
      ApiSample(<<Test>>, <<1, 10>>, <<>>),
      ApiSample(<<Main>>, <<1, 10>>, <<LPid, LThr>>),
      ApiSample(<<Main>>, <<2, 5>>, <<LThr, LPid>>),
      ApiSample(<<Main>>, <<1, 10>>, <<LPid>>),
      ApiSample(<<Main, Main3>>, <<1, 10>>, <<LSize>>),
      ApiSample(<<Main>>, <<1, 10>>, <<LPid, LTs1>>),
      ApiSample(<<Main>>, <<1, 10>>, <<LTs2, LPid>>),
      ApiSample(<<Main>>, <<1, 10>>, <<LTs0>>),
      ApiSample(<<Main>>, <<1, 10>>, <<LSpan1>>),
      ApiSample(<<Test>>, <<1, 10>>, <<LSpan1, LSpan2>>),
      ApiSample(<<Main>>, <<1, 10>>, <<LSpan2, LTs1, LPid, LSpan2>>),
      ApiSample(<<Test>>, <<1, 10>>, <<LSpan0>>),
      ApiSample(<<Test>>, <<1, 10>>, <<LSpanS>>),
      ApiSample(<<Main>>, <<1>>, <<LPid>>),
      ApiSample(<<Main>>, <<1, 10>>, <<LTsS>>),
      ApiSample(<<Main>>, <<1, 10>>, <<LPid, LTsU>>),
      ApiSample(<<Main>>, <<1, 10>>, <<LTs1, LTsS>>) }

\* the samples, span ids and endpoints of the endpoint specification
EndpointSamples ==
    { ApiSample(<<Main>>, <<1, 10>>, <<LPid, LSpan1>>),
      ApiSample(<<Main>>, <<1, 10>>, <<LSpanM>>),
      ApiSample(<<Main>>, <<1, 10>>, <<LSpan2, LTs1>>),
      ApiSample(<<Main>>, <<1, 10>>, <<LTs1, LSpan1, LPid>>),
      ApiSample(<<Main>>, <<1, 10>>, <<LEp>>) }

SpanIds == {U64(1), transmute(-1), U64(3)}
EndpointNames == {"ep1", "ep2"}

\* the inputs of the reset specification
ResetSamples ==
    { ApiSample(<<Main>>, <<1, 10>>, <<LPid>>),
      ApiSample(<<Test>>, <<1, 10>>, <<LSpan1, LTs1>>) }
ResetSpanIds == {U64(1)}
ResetEndpointNames == {"ep1"}

Proportional(num, den) == [tag |-> "Proportional", scale_num |-> num, scale_den |-> den]
Poisson(sum, count, distance) ==
    [tag |-> "Poisson", sum_value_offset |-> sum, count_value_offset |-> count,
     sampling_distance |-> distance]

UpscalingRule(offsets, name, value, info) ==
    [offset_values |-> offsets, label_name |-> name, label_value |-> value, info |-> info]

ResetRules == { UpscalingRule(<<0>>, "", "", Proportional(2, 1)) }

\* the rules of the upscaling specification
RuleOffsets == {<<0>>, <<1>>, <<1, 0>>, <<2>>}
RuleLabels == {<<"", "">>, <<"thread", "a">>}
RuleInfos == {Proportional(2, 1), Poisson(1, 0, 10), Poisson(1, 0, 0)}
UpscalingRuleInputs ==
    {UpscalingRule(o, l[1], l[2], i) : o \in RuleOffsets, l \in RuleLabels, i \in RuleInfos}

\* the inputs of the scaling specification: samples whose count (offset 0)
\* or sum (offset 1) is zero or not, rules that are valid and rules that
\* are not
ScalingSamples ==
    { ApiSample(<<Main>>, <<0, 2>>, <<>>),
      ApiSample(<<Main>>, <<2, 1>>, <<LThr>>),
      ApiSample(<<Test>>, <<0, 1>>, <<LThr>>),
      ApiSample(<<Main>>, <<0, 3>>, <<LTs1>>),
      ApiSample(<<>>, <<>>, <<>>) }
ScalingRules ==
    { UpscalingRule(<<0>>, "", "", Proportional(2, 1)),
      UpscalingRule(<<1>>, "", "", Poisson(1, 0, 1)),
      UpscalingRule(<<1, 0>>, "thread", "a", Poisson(1, 0, 1)),
      UpscalingRule(<<1>>, "thread", "a", Proportional(3, 2)),
      UpscalingRule(<<2>>, "", "", Proportional(2, 1)),
      UpscalingRule(<<0>>, "lang", "x", Poisson(2, 0, 1)),
      UpscalingRule(<<0>>, "", "", Poisson(1, 2, 1)),
      UpscalingRule(<<1>>, "thread", "a", Poisson(1, 0, 0)),
      UpscalingRule(<<1, 0>>, "", "", Proportional(3, 2)),
      UpscalingRule(<<0>>, "thread", "b", Proportional(2, 1)),
      UpscalingRule(<<1>>, "end_timestamp_ns", "", Proportional(2, 1)) }

\* the arguments of serialize
EndTimes == {None, Some(5)}
Durations == {None, Some(Duration_from_nanos(7))}

\* serialize called at any end time with any duration: an end before the
\* start of the profile, a duration of 10^10 seconds, one of i64::MAX
\* nanoseconds and one nanosecond more
SerializeEndTimes == {None, Some(5), Some(0)}
SerializeDurations ==
    {None, Some(Duration_from_nanos(7)), Some(<<10, 0, 0>>), Some(i64_MAX),
     Some(<<9, 223372036, 854775808>>)}
SerializeDurationNanos == {None, Some(7), Some(0), Some(-1)}
CountedEndpoints == {"ep1", "ep2"}
CountDeltas == {1, 2, -1}

----------------------------------------------------------------------------
(* History kept for the statements below: what the caller has added since  *)
(* the profile was constructed or reset.                                   *)

RECURSIVE CountOf(_, _)
CountOf(s, x) ==
    IF s = <<>> THEN 0 ELSE (IF Head(s) = x THEN 1 ELSE 0) + CountOf(Tail(s), x)

\* the labels of a sample that are not the timestamp
SelectLabels(labels) == SelectSeq(labels, LAMBDA l : l.key # "end_timestamp_ns")

\* ... as a bag: the order of the labels forgotten
LabelBag(labels) ==
    [l \in Range(SelectLabels(labels)) |-> CountOf(SelectLabels(labels), l)]

\* what identifies a sample to the caller: its stack and its labels
ApiKey(sample) == <<sample.locations, LabelBag(sample.labels)>>

\* the timestamp the caller gave the sample, if any
ApiTimestamp(sample) == FindKey(sample.labels, "end_timestamp_ns")

\* agg: key of the caller -> sum of the values added without a timestamp;
\* keys: the (LabelSetId, StackTraceId) keys added without a timestamp;
\* tsl: the samples added with a timestamp, in the order of the calls;
\* lsid: labels of the caller (as a bag) -> the first LabelSetId they got;
\* endpoints: span id -> endpoint; rules: the upscaling rules registered
EmptyHist == [agg |-> EmptyMap, keys |-> {}, tsl |-> <<>>, lsid |-> EmptyMap,
              endpoints |-> EmptyMap, rules |-> {}, counts |-> <<>>,
              calls |-> <<>>]

\* the history with one more call that succeeded
HistCall(h, out, call) ==
    IF out = "ok" THEN [h EXCEPT !.calls = Append(@, call)] ELSE h

HistAddLsid(h, sample, r) ==
    IF LabelBag(sample.labels) \in DOMAIN h.lsid THEN h
    ELSE [h EXCEPT !.lsid = MapPut(@, LabelBag(sample.labels), r.sample.labels)]

HistAdd(h, sample, r) ==
    IF r.out # "ok" THEN h
    ELSE IF ApiTimestamp(sample) = None
    THEN [HistAddLsid(h, sample, r) EXCEPT
            !.agg = MapPut(@, ApiKey(sample),
                           IF ApiKey(sample) \in DOMAIN @
                           THEN SumValues(@[ApiKey(sample)], sample.values)
                           ELSE sample.values),
            !.keys = @ \cup {r.sample}]
    ELSE [HistAddLsid(h, sample, r) EXCEPT
            !.tsl = Append(@, [key |-> ApiKey(sample),
                               ts |-> ApiTimestamp(sample)[1].num,
                               values |-> sample.values])]

----------------------------------------------------------------------------
(* The state machine.                                                      *)

InitTable == StringTable_with_capacity(StrTableCap, "release", "fault").t

InitProfile ==
    ProfileBuilder_build([period |-> Some(Period), sample_types |-> SampleTypes,
                          start_time |-> Some(StartTime), limits |-> Some(Limits)],
                         Now, TRUE, [bld |-> "release", ub |-> "fault"]).p

\* the writer outside alloc, a reader that has not fetched yet
WriterIdle == [pc |-> 0, item |-> 0, offset |-> 0]
ReaderIdle == [pc |-> "idle", offset |-> 0, out |-> "none", item |-> 0, n |-> 0]
Readers == 1..NumReaders

----------------------------------------------------------------------------
(* identifiable/string_table.rs shared with a StringTableReader: the byte  *)
(* table and the table of views with their memory.  A string is the        *)
(* sequence of its bytes (none of them 0, the content of a fresh region);  *)
(* a &str is the offset of its bytes in the byte table and its length.     *)
(* The memory of the byte table is followed by PastLen bytes of whatever   *)
(* lies behind the region, which a copy past the region overwrites.        *)

StrView(off, n) == [off |-> off, n |-> n]

\* the slot of a view that was never written (the zeroes of the fresh
\* region: a null pointer), and one of which only a part was written
ZeroView == StrView(-1, 0)
TornView == StrView(-1, -1)

\* bytes that were read through a view that was never written whole
Garbage == <<Torn>>

\* what lies behind the region of the byte table, in bytes
PastLen == MaxCellInserts * 6

\* StringTable::with_capacity(capacity): the two tables, "" inserted at 0
Cell_with_capacity(capacity) ==
    Bind(TableWriter_new(capacity, 1).t, LAMBDA b :
        [bytes |-> [b EXCEPT !.mem = [i \in 1..(b.cap + PastLen) |-> 0]],
         vec |-> [len |-> 1, cap |-> Table_new(VecCap, StrViewSize).cap,
                  size |-> StrViewSize,
                  mem |-> [i \in 1..(MaxCellInserts + 2) |->
                              IF i = 1 THEN StrView(0, 0) ELSE ZeroView]],
         map |-> (<<>> :> StringId_ZERO)])

\* the accesses of StringTable::insert_full to the shared memory, with the
\* view published before the bytes
insert_order_view_first ==
    <<"write_view_part", "write_view", "store_vec",
      "copy_part", "copy_rest", "store_bytes", "map_insert">>

\* the accesses of StringTable::insert_full for a new string, after the
\* lookup and the capacity test of the byte table, in program order:
\* bytes.add_slice (memcpy, then the Release store of the length), vec.add
\* (the write of the &str, then the Release store of the length), map.insert
insert_order ==
    <<"copy_part", "copy_rest", "store_bytes",
      "write_view_part", "write_view", "store_vec", "map_insert">>

\* one access of insert_full: the tables after it
Cell_insert_step(c, step, w) ==
    CASE step = "copy_part" ->
           [c EXCEPT !.bytes.mem =
               Memcpy(@, w.off, SubSeq(w.str, 1, Len(w.str) \div 2), 1)]
      [] step = "copy_rest" ->
           [c EXCEPT !.bytes.mem = Memcpy(@, w.off, w.str, 1)]
      [] step = "store_bytes" ->
           [c EXCEPT !.bytes.len = w.off + Len(w.str)]
      [] step = "write_view_part" ->
           [c EXCEPT !.vec.mem = WriteSlot(@, w.id, TornView)]
      [] step = "write_view" ->
           [c EXCEPT !.vec.mem = WriteSlot(@, w.id, StrView(w.off, Len(w.str)))]
      [] step = "store_vec" ->
           [c EXCEPT !.vec.len = w.id + 1]
      [] step = "map_insert" ->
           [c EXCEPT !.map = (w.str :> w.id) @@ @]

\* the bytes a &str refers to
Cell_str(c, view) ==
    IF view.off < 0 THEN Garbage
    ELSE [k \in 1..view.n |-> c.bytes.mem[view.off + k]]

\* the writer outside insert_full, the reader outside try_get_id
CellWriterIdle == [pc |-> 0, str |-> <<>>, id |-> 0, off |-> 0]
CellReaderIdle == [pc |-> "idle", id |-> 0, seen |-> 0, view |-> ZeroView,
                   out |-> "none", str |-> <<>>, n |-> 0]

\* StringTable::with_capacity, get_reader: tables, writer, reader, and the
\* history of the strings inserted (ids[k + 1] was inserted under id k)
InitCell ==
    [t |-> Cell_with_capacity(CellCap), w |-> CellWriterIdle,
     r |-> CellReaderIdle, ids |-> << <<>> >>]

----------------------------------------------------------------------------
(* ipc/src/platform/unix/channel.rs: a Channel with its ChannelMetadata.   *)
(* Handles are numbers; to_send is the queue of handles to send with the   *)
(* next data, deferred the handles to close later.                         *)

\* ChannelMetadata::drain_to_send(): the first k handles leave the queue
drain_to_send(m, k) ==
    [handles |-> SubSeq(m.to_send, 1, k),
     m |-> [m EXCEPT !.to_send = SubSeq(@, k + 1, Len(@))]]

\* ChannelMetadata::reenqueue_for_sending(handles)
reenqueue_for_sending(m, handles) == [m EXCEPT !.to_send = handles \o @]

\* ChannelMetadata::defer_close_handles(handles)
defer_close_handles(m, handles) == [m EXCEPT !.deferred = @ \o handles]

\* Channel::from(handle): nothing queued, outside write_all
\* ChannelMetadata::enqueue_for_sending(handle)
enqueue_for_sending(m, handle) == [m EXCEPT !.to_send = Append(@, handle)]

\* Channel::from(handle): nothing queued, outside write_all.  pc is the
\* loop write_all is in, buf the length of what is left of its buffer,
\* result what the last write_all returned; history: the handles made, the
\* queue when write_all started, the handles a send that wrote data took
\* along, and whether a send with handles was interrupted.
InitChannel ==
    [pc |-> "idle", buf |-> 0, result |-> "none",
     metadata |-> [to_send |-> <<>>, deferred |-> <<>>],
     made |-> 0, queued |-> <<>>, sent |-> <<>>, interrupted |-> FALSE]

\* the outcomes of send_with_fd and of write on the socket
SendOutcomes == {"zero", "some", "interrupted", "error"}

\* Table::with_arena_capacity(2), as in tests::test_operations
InitIdTable ==
    IdTable_with_arena_capacity(TableCapacity, TestItemSize, TestItemAlign).t

Init ==
    /\ build \in {"debug", "release"}
    /\ crashed = "no"
    /\ nops = 0
    /\ table = InitTable
    /\ first_id = ("" :> StringId_ZERO)
    /\ profile = InitProfile
    /\ old_profile = NoProfile
    /\ last = [op |-> "new", out |-> "ok"]
    /\ hist = EmptyHist
    /\ id_table = InitIdTable
    /\ inserted_items = <<>>
    /\ atable = TableWriter_new(AppendCap, 1).t
    /\ written = <<>>
    /\ writer = WriterIdle
    /\ readers = [r \in Readers |-> ReaderIdle]
    /\ cell = InitCell
    /\ channel = InitChannel
    /\ arena = ArenaAllocator_with_capacity(1, ArenaCap).a

\* what a panic or a fault does to the process
Fate(out) == IF out \in {"panic", "fault"} THEN out ELSE "no"

\* StringTable::insert(str) on the standalone table
Insert ==
    /\ crashed = "no"
    /\ nops < MaxInserts
    /\ \E str \in StrPool, ub \in UB :
        \E r \in {StringTable_insert_full(table, str, build, ub)} :
            /\ table' = r.t
            /\ crashed' = Fate(r.out)
            /\ first_id' = IF r.out \in {"ok", "overrun"} /\ str \notin DOMAIN first_id
                           THEN MapPut(first_id, str, r.id) ELSE first_id
            /\ last' = [op |-> "insert", str |-> str, out |-> r.out, id |-> r.id,
                        inserted |-> r.inserted]
    /\ nops' = nops + 1
    /\ UNCHANGED <<cell, channel, arena, appendVars, id_table, inserted_items, build, profile, old_profile, hist>>

\* Profile::add(sample) with a sample of S
AddFrom(S, max) ==
    /\ crashed = "no"
    /\ nops < max
    /\ \E sample \in S :
        \E r \in {add(profile, sample, [bld |-> build, ub |-> "fault"])} :
            /\ profile' = r.p
            /\ crashed' = Fate(r.out)
            /\ hist' = HistCall(HistAdd(hist, sample, r), r.out,
                                 [op |-> "add", sample |-> sample])
            /\ last' = [op |-> "add", sample |-> sample, out |-> r.out,
                        key |-> r.sample, timestamp |-> r.timestamp]
    /\ nops' = nops + 1
    /\ UNCHANGED <<cell, channel, arena, appendVars, id_table, inserted_items, build, table, first_id, old_profile>>

\* Profile::add_endpoint(local_root_span_id, endpoint)
AddEndpointFrom(K, E, max) ==
    /\ crashed = "no"
    /\ nops < max
    /\ \E k \in K, e \in E :
        \E r \in {add_endpoint(profile, k, e, [bld |-> build, ub |-> "fault"])} :
            /\ profile' = r.p
            /\ crashed' = Fate(r.out)
            /\ hist' = HistCall(IF r.out = "ok"
                                 THEN [hist EXCEPT !.endpoints = MapPut(@, k, e)]
                                 ELSE hist,
                                 r.out, [op |-> "add_endpoint", local_root_span_id |-> k])
            /\ last' = [op |-> "add_endpoint", local_root_span_id |-> k,
                        endpoint |-> e, out |-> r.out]
    /\ nops' = nops + 1
    /\ UNCHANGED <<cell, channel, arena, appendVars, id_table, inserted_items, build, table, first_id, old_profile>>

\* Profile::add_endpoint_count(endpoint, value)
AddEndpointCountWith(E, V, max) ==
    /\ crashed = "no"
    /\ nops < max
    /\ \E e \in E, value \in V :
        /\ profile' = add_endpoint_count(profile, e, value)
        /\ hist' = [hist EXCEPT !.counts = Append(@, <<e, value>>)]
        /\ last' = [op |-> "add_endpoint_count", endpoint |-> e, value |-> value,
                    out |-> "ok"]
    /\ nops' = nops + 1
    /\ UNCHANGED <<cell, channel, arena, appendVars, id_table, inserted_items, build, crashed, table, first_id, old_profile>>

AddEndpointCountFrom(E, max) == AddEndpointCountWith(E, {1}, max)

\* Profile::add_upscaling_rule(offset_values, label_name, label_value, info)
AddUpscalingRuleFrom(R, max) ==
    /\ crashed = "no"
    /\ nops < max
    /\ \E rule \in R :
        \E r \in {add_upscaling_rule(profile, rule.offset_values, rule.label_name,
                                     rule.label_value, rule.info,
                                     [bld |-> build, ub |-> "fault"])} :
            /\ profile' = r.p
            /\ crashed' = Fate(r.out)
            /\ hist' = IF r.out = "ok"
                       THEN [hist EXCEPT !.rules = @ \cup
                                {[label_name |-> rule.label_name,
                                  label_value |-> rule.label_value,
                                  offsets |-> Range(rule.offset_values),
                                  info |-> rule.info]}]
                       ELSE hist
            /\ last' = [op |-> "add_upscaling_rule", rule |-> rule, out |-> r.out]
    /\ nops' = nops + 1
    /\ UNCHANGED <<cell, channel, arena, appendVars, id_table, inserted_items, build, table, first_id, old_profile>>

\* Profile::reset(start_time); the OS may refuse the new regions
Reset(max) ==
    /\ crashed = "no"
    /\ nops < max
    /\ \E start_time \in {None, Some(Now + 6)}, os_ok \in BOOLEAN :
        \E r \in {reset(profile, start_time, Now, os_ok,
                        [bld |-> build, ub |-> "fault"])} :
            /\ profile' = r.p
            /\ old_profile' = IF r.out = "ok" THEN r.old ELSE old_profile
            /\ crashed' = Fate(r.out)
            /\ hist' = IF r.out = "ok" THEN EmptyHist
                       ELSE [hist EXCEPT !.calls = Append(@, [op |-> "reset", out |-> r.out])]
            /\ last' = [op |-> "reset", start_time |-> start_time, out |-> r.out]
    /\ nops' = nops + 1
    /\ UNCHANGED <<cell, channel, arena, appendVars, id_table, inserted_items, build, table, first_id>>

\* ddog_prof_Profile_reset(profile, start_time)
ResetFfi(max) ==
    /\ crashed = "no"
    /\ nops < max
    /\ \E start_time \in {None, Some(Now + 6)}, os_ok \in BOOLEAN :
        \E r \in {ddog_prof_Profile_reset(profile, start_time, Now, os_ok,
                                          [bld |-> build, ub |-> "fault"])} :
            /\ profile' = r.p
            /\ crashed' = Fate(r.out)
            /\ hist' = IF r.out = "ok" THEN EmptyHist
                       ELSE [hist EXCEPT !.calls = Append(@, [op |-> "reset", out |-> r.out])]
            /\ last' = [op |-> "ddog_prof_Profile_reset", start_time |-> start_time,
                        out |-> r.out, ok |-> r.ok]
    /\ nops' = nops + 1
    /\ UNCHANGED <<cell, channel, arena, appendVars, id_table, inserted_items, build, table, first_id, old_profile>>

\* Profile::serialize(end_time, duration)
SerializeWith(ET, D, max) ==
    /\ crashed = "no"
    /\ nops < max
    /\ \E end_time \in ET, duration \in D :
        \E r \in {serialize(profile, end_time, duration, Now)} :
            /\ profile' = r.self
            /\ last' = [op |-> "serialize", end_time |-> end_time,
                        duration |-> duration, out |-> r.out,
                        encoded |-> [out |-> r.out, start |-> r.start, end |-> r.end,
                                     profile |-> r.profile,
                                     endpoints_stats |-> r.endpoints_stats]]
    /\ nops' = nops + 1
    /\ UNCHANGED <<cell, channel, arena, appendVars, id_table, inserted_items, build, crashed, table, first_id, old_profile, hist>>

Serialize(max) == SerializeWith(EndTimes, Durations, max)

\* ddog_prof_Profile_serialize(profile, end_time, duration_nanos)
SerializeFfi(ET, DN, max) ==
    /\ crashed = "no"
    /\ nops < max
    /\ \E end_time \in ET, duration_nanos \in DN :
        \E r \in {ddog_prof_Profile_serialize(profile, end_time, duration_nanos, Now)} :
            /\ profile' = r.self
            /\ last' = [op |-> "ddog_prof_Profile_serialize", end_time |-> end_time,
                        duration_nanos |-> duration_nanos, out |-> r.out,
                        encoded |-> [out |-> r.out, start |-> r.start, end |-> r.end,
                                     profile |-> r.profile,
                                     endpoints_stats |-> r.endpoints_stats]]
    /\ nops' = nops + 1
    /\ UNCHANGED <<cell, channel, arena, appendVars, id_table, inserted_items, build, crashed, table, first_id, old_profile, hist>>

\* the string interner alone
NextStrings == Insert

\* The items given to the standalone entity table
TestItems == {TestItem(0), TestItem(3), TestItem(13), TestItem(7)}

\* Table::insert_full(item) on the standalone entity table
TableInsert ==
    /\ crashed = "no"
    /\ nops < MaxTableOps
    /\ \E item \in TestItems :
        \E r \in {IdTable_insert_full(id_table, item, TestItemSize, TestItemAlign)} :
            /\ id_table' = r.t
            /\ inserted_items' = IF r.ok /\ r.inserted
                                 THEN Append(inserted_items, item)
                                 ELSE inserted_items
            /\ last' = [op |-> "insert_full", item |-> item,
                        out |-> IF r.ok THEN "ok" ELSE "err",
                        id |-> r.id, inserted |-> r.inserted,
                        before |-> inserted_items]
    /\ nops' = nops + 1
    /\ UNCHANGED <<cell, channel, arena, appendVars, build, crashed, table, first_id, profile, old_profile, hist>>

\* Table::get_id(id) on the standalone entity table
TableGetId ==
    /\ crashed = "no"
    /\ nops < MaxTableOps
    /\ \E id \in 0..(TableCapacity + 1), ub \in UB, junk \in TestItems :
        \E r \in {IdTable_get_id(id_table, id, TestItemSize, TestItem(0), ub, junk)} :
            /\ crashed' = Fate(r.out)
            /\ last' = [op |-> "get_id", id |-> id, out |-> r.out, item |-> r.item]
    /\ nops' = nops + 1
    /\ UNCHANGED <<cell, channel, arena, appendVars, id_table, inserted_items, build, table, first_id, profile,
                   old_profile, hist>>

NextTable == TableInsert \/ TableGetId
SpecTable == Init /\ [][NextTable]_vars

----------------------------------------------------------------------------
(* The append-only table used by one thread (SpecAppend).                  *)

\* sizes of the elements of the table: a byte (TableWriter<u8>) and two
ElemSizes == {1, 2}
\* the items and slices added, the offsets and lengths fetched
Items == {1, 2, 3}
Slices == {<<>>, <<1>>, <<2, 3>>, <<1, 2, 3>>, <<3, 2, 1, 3, 2, 1>>}
FetchOffsets == {U32(i) : i \in 0..3} \cup {U32_MAX}
FetchLens == {U32(i) : i \in 0..3} \cup {U32_MAX}

InitAppend ==
    /\ build \in {"debug", "release"}
    /\ crashed = "no"
    /\ nops = 0
    /\ table = InitTable
    /\ first_id = ("" :> StringId_ZERO)
    /\ profile = InitProfile
    /\ old_profile = NoProfile
    /\ last = [op |-> "new", out |-> "ok"]
    /\ hist = EmptyHist
    /\ id_table = InitIdTable
    /\ inserted_items = <<>>
    /\ atable \in {TableWriter_new(AppendCap, size).t : size \in ElemSizes}
    /\ written = <<>>
    /\ writer = WriterIdle
    /\ readers = [r \in Readers |-> ReaderIdle]
    /\ cell = InitCell
    /\ channel = InitChannel
    /\ arena = ArenaAllocator_with_capacity(1, ArenaCap).a

\* TableWriter::add(item)
TableAdd ==
    /\ crashed = "no"
    /\ nops < MaxAppendOps
    /\ \E item \in Items, ub \in UB :
        \E r \in {TableWriter_add(atable, item, ub)} :
            /\ atable' = r.t
            /\ crashed' = Fate(r.out)
            /\ written' = IF r.out \in {"ok", "overrun"}
                          THEN Append(written, item) ELSE written
            /\ last' = [op |-> "add", item |-> item, out |-> r.out,
                        offset |-> r.offset, before |-> atable]
    /\ nops' = nops + 1
    /\ UNCHANGED <<cell, channel, arena, writer, readers, id_table, inserted_items, build, table, first_id,
                   profile, old_profile, hist>>

\* TableWriter::add_slice(items)
TableAddSlice ==
    /\ crashed = "no"
    /\ nops < MaxAppendOps
    /\ \E items \in Slices, ub \in UB :
        \E r \in {TableWriter_add_slice(atable, items, build, ub)} :
            /\ atable' = r.t
            /\ crashed' = Fate(r.out)
            /\ written' = IF r.out \in {"ok", "overrun"}
                          THEN written \o items ELSE written
            /\ last' = [op |-> "add_slice", items |-> items, out |-> r.out,
                        slice |-> r.slice, before |-> atable]
    /\ nops' = nops + 1
    /\ UNCHANGED <<cell, channel, arena, writer, readers, id_table, inserted_items, build, table, first_id,
                   profile, old_profile, hist>>

\* TableWriter::try_fetch(offset)
TableTryFetch ==
    /\ crashed = "no"
    /\ nops < MaxAppendOps + 1
    /\ \E offset \in 0..(2 * AppendCap), junk \in Items :
        \E r \in {TableWriter_try_fetch(atable, offset, junk)} :
            last' = [op |-> "try_fetch", offset |-> offset, out |-> r.out,
                     item |-> r.item]
    /\ nops' = nops + 1
    /\ UNCHANGED <<cell, channel, arena, appendVars, id_table, inserted_items, build, crashed, table,
                   first_id, profile, old_profile, hist>>

\* TableWriter::try_fetch_range(offset, len)
TableTryFetchRange ==
    /\ crashed = "no"
    /\ nops < MaxAppendOps + 1
    /\ \E offset \in FetchOffsets, len \in FetchLens, junk \in Items :
        \E r \in {TableWriter_try_fetch_range(atable, offset, len, junk)} :
            last' = [op |-> "try_fetch_range", offset |-> offset, len |-> len,
                     out |-> r.out, slice |-> r.slice]
    /\ nops' = nops + 1
    /\ UNCHANGED <<cell, channel, arena, appendVars, id_table, inserted_items, build, crashed, table,
                   first_id, profile, old_profile, hist>>

NextAppend == TableAdd \/ TableAddSlice \/ TableTryFetch \/ TableTryFetchRange
SpecAppend == InitAppend /\ [][NextAppend]_vars

----------------------------------------------------------------------------
(* The append-only table shared by one writer and the readers              *)
(* (SpecConcurrent).  Table::alloc is taken apart into its accesses to     *)
(* the shared memory: the load of the length, the write of the item (its   *)
(* bytes are not written at once) and the store of the length; try_fetch   *)
(* into the load of the length and the read through the reference.  The    *)
(* Release store and the Acquire load order the write of the item before   *)
(* any read that follows a load of the new length, so the steps of the     *)
(* threads are interleaved in program order.                               *)

\* Table::alloc that publishes the length before it writes the item
alloc_order_store_first == <<"store", "write_part", "write_rest">>

\* Table::alloc after the load of the length and the capacity test: the
\* item is written, then the length is stored
alloc_order == <<"write_part", "write_rest", "store">>

\* the writer enters TableWriter::add(item): loads the length, and panics
\* when the table is full
WriterLoad ==
    /\ crashed = "no"
    /\ writer.pc = 0
    /\ Len(written) < MaxWrites
    /\ \E item \in Items :
        \E r \in {Table_alloc(atable)} :
            IF r.out = "panic"
            THEN /\ crashed' = "panic"
                 /\ UNCHANGED <<cell, channel, arena, writer, written>>
            ELSE /\ writer' = [pc |-> 1, item |-> item, offset |-> r.offset]
                 /\ written' = Append(written, item)
                 /\ UNCHANGED crashed
    /\ UNCHANGED <<cell, channel, arena, atable, readers, id_table, inserted_items, build, nops, table,
                   first_id, profile, old_profile, last, hist>>

\* the next access of the writer inside Table::alloc
WriterStep ==
    /\ crashed = "no"
    /\ writer.pc > 0
    /\ atable' =
         CASE alloc_order[writer.pc] = "write_part" ->
                [atable EXCEPT !.mem = WriteSlot(atable.mem, writer.offset, Torn)]
           [] alloc_order[writer.pc] = "write_rest" ->
                [atable EXCEPT !.mem = WriteSlot(atable.mem, writer.offset, writer.item)]
           [] alloc_order[writer.pc] = "store" ->
                [atable EXCEPT !.len = writer.offset + 1]
    /\ writer' = IF writer.pc = Len(alloc_order) THEN WriterIdle
                 ELSE [writer EXCEPT !.pc = @ + 1]
    /\ UNCHANGED <<cell, channel, arena, written, readers, id_table, inserted_items, build, crashed, nops,
                   table, first_id, profile, old_profile, last, hist>>

\* a reader enters TableReader::try_fetch(offset): loads the length and
\* compares
ReaderLoad(r) ==
    /\ crashed = "no"
    /\ readers[r].pc = "idle"
    /\ readers[r].n < MaxFetches
    /\ \E offset \in 0..MaxWrites :
        readers' = [readers EXCEPT ![r] =
            IF Table_try_fetch(atable, offset)
            THEN [pc |-> "deref", offset |-> offset, out |-> "none", item |-> 0,
                  n |-> @.n + 1]
            ELSE [pc |-> "idle", offset |-> offset, out |-> "err", item |-> 0,
                  n |-> @.n + 1]]
    /\ UNCHANGED <<cell, channel, arena, atable, written, writer, id_table, inserted_items, build, crashed,
                   nops, table, first_id, profile, old_profile, last, hist>>

\* the reader reads the element through the reference try_fetch returned
ReaderDeref(r) ==
    /\ crashed = "no"
    /\ readers[r].pc = "deref"
    /\ readers' = [readers EXCEPT ![r] =
            [@ EXCEPT !.pc = "idle", !.out = "ok",
                      !.item = atable.mem[readers[r].offset + 1]]]
    /\ UNCHANGED <<cell, channel, arena, atable, written, writer, id_table, inserted_items, build, crashed,
                   nops, table, first_id, profile, old_profile, last, hist>>

----------------------------------------------------------------------------
(* The StringTable shared with a StringTableReader on another thread       *)
(* (SpecReader).  insert_full and try_get_id are taken apart into their    *)
(* accesses to the shared memory, interleaved in program order.            *)

CellStrings == {<<1>>, <<2, 3>>, <<4, 5, 6>>, <<4, 5, 6, 7, 8, 9>>}

\* the writer enters StringTable::insert_full(str): the lookup in the map
\* and, for a new string, the load of the length of the byte table and its
\* capacity test
CellInsert ==
    /\ crashed = "no"
    /\ cell.w.pc = 0
    /\ nops < MaxCellInserts
    /\ \E str \in CellStrings, ub \in UB :
        IF str \in DOMAIN cell.t.map
        THEN UNCHANGED <<cell, crashed>>
        ELSE \E r \in {Table_alloc_slice(cell.t.bytes, Len(str), build, ub)} :
                IF r.out \in {"panic", "fault"}
                THEN /\ crashed' = r.out
                     /\ UNCHANGED cell
                ELSE /\ cell' = [cell EXCEPT
                                   !.w = [pc |-> 1, str |-> str,
                                          id |-> cell.t.vec.len,
                                          off |-> cell.t.bytes.len],
                                   !.ids = Append(@, str)]
                     /\ UNCHANGED crashed
    /\ nops' = nops + 1
    /\ UNCHANGED <<channel, arena, appendVars, id_table, inserted_items, build, table,
                   first_id, profile, old_profile, last, hist>>

\* the next access of the writer inside insert_full; vec.add panics when
\* the table of views is full
CellWriterStep ==
    /\ crashed = "no"
    /\ cell.w.pc > 0
    /\ IF insert_order[cell.w.pc] = "write_view_part"
          /\ Table_alloc(cell.t.vec).out = "panic"
       THEN /\ crashed' = "panic"
            /\ UNCHANGED cell
       ELSE /\ cell' = [cell EXCEPT
                          !.t = Cell_insert_step(@, insert_order[cell.w.pc], cell.w),
                          !.w = IF cell.w.pc = Len(insert_order) THEN CellWriterIdle
                                ELSE [@ EXCEPT !.pc = @ + 1]]
            /\ UNCHANGED crashed
    /\ UNCHANGED <<channel, arena, appendVars, id_table, inserted_items, build, nops, table,
                   first_id, profile, old_profile, last, hist>>

\* the reader enters StringTableReader::try_get_id(id): the Acquire load
\* of the length of the table of views and the comparison
CellReaderGet ==
    /\ crashed = "no"
    /\ cell.r.pc = "idle"
    /\ cell.r.n < MaxGets
    /\ \E id \in 0..(MaxCellInserts + 1) :
        cell' = [cell EXCEPT !.r =
            IF Table_try_fetch(cell.t.vec, id)
            THEN [pc |-> "copied", id |-> id, seen |-> cell.t.vec.len,
                  view |-> ZeroView, out |-> "none", str |-> <<>>, n |-> @.n + 1]
            ELSE [pc |-> "idle", id |-> id, seen |-> cell.t.vec.len,
                  view |-> ZeroView, out |-> "err", str |-> <<>>, n |-> @.n + 1]]
    /\ UNCHANGED <<channel, arena, appendVars, id_table, inserted_items, build, crashed,
                   nops, table, first_id, profile, old_profile, last, hist>>

\* try_get_id copies the &str out of the slot and returns it
CellReaderCopied ==
    /\ crashed = "no"
    /\ cell.r.pc = "copied"
    /\ cell' = [cell EXCEPT !.r.pc = "read",
                            !.r.view = cell.t.vec.mem[cell.r.id + 1]]
    /\ UNCHANGED <<channel, arena, appendVars, id_table, inserted_items, build, crashed,
                   nops, table, first_id, profile, old_profile, last, hist>>

\* the reader reads the bytes of the string it was given
CellReaderRead ==
    /\ crashed = "no"
    /\ cell.r.pc = "read"
    /\ cell' = [cell EXCEPT !.r.pc = "idle", !.r.out = "ok",
                            !.r.str = Cell_str(cell.t, cell.r.view)]
    /\ UNCHANGED <<channel, arena, appendVars, id_table, inserted_items, build, crashed,
                   nops, table, first_id, profile, old_profile, last, hist>>

NextReader ==
    \/ CellInsert
    \/ CellWriterStep
    \/ CellReaderGet
    \/ CellReaderCopied
    \/ CellReaderRead
SpecReader == Init /\ [][NextReader]_vars

----------------------------------------------------------------------------
(* Channel::write_all (SpecChannel), one step per call on the socket.      *)

\* a handle is queued for sending with the next data
EnqueueForSending ==
    /\ channel.pc = "idle"
    /\ channel.made < MaxHandles
    /\ channel' = [channel EXCEPT
                     !.made = @ + 1,
                     !.metadata = enqueue_for_sending(@, channel.made + 1)]
    /\ UNCHANGED <<cell, arena, appendVars, id_table, inserted_items, build, crashed, nops,
                   table, first_id, profile, old_profile, last, hist>>

\* write_all(buf) is entered: as_socketlike_view()? returns the error or
\* gives the socket
WriteAll ==
    /\ channel.pc = "idle"
    /\ \E n \in 0..MaxBuf, view_ok \in BOOLEAN :
        channel' = [channel EXCEPT
                      !.pc = IF view_ok THEN "send" ELSE "idle",
                      !.buf = n,
                      !.result = IF view_ok THEN "none" ELSE "err",
                      !.queued = channel.metadata.to_send,
                      !.sent = <<>>,
                      !.interrupted = FALSE]
    /\ UNCHANGED <<cell, arena, appendVars, id_table, inserted_items, build, crashed, nops,
                   table, first_id, profile, old_profile, last, hist>>

\* one round of the first loop of write_all: the handles are drained and
\* sent with the buffer
SendWithFd ==
    /\ channel.pc = "send"
    /\ IF channel.buf = 0 \/ channel.metadata.to_send = <<>>
       THEN channel' = [channel EXCEPT !.pc = "write"]
       ELSE \E k \in 1..Len(channel.metadata.to_send), out \in SendOutcomes,
               n \in 1..channel.buf :
             \E d \in {drain_to_send(channel.metadata, k)} :
               channel' =
                 CASE out = "zero" ->
                        [channel EXCEPT
                           !.metadata = reenqueue_for_sending(d.m, d.handles),
                           !.result = "err", !.pc = "idle"]
                   [] out = "some" ->
                        [channel EXCEPT
                           !.metadata = defer_close_handles(d.m, d.handles),
                           !.sent = @ \o d.handles,
                           !.buf = @ - n]
                   [] out = "interrupted" ->
                        [channel EXCEPT !.metadata = d.m, !.interrupted = TRUE]
                   [] out = "error" ->
                        [channel EXCEPT
                           !.metadata = reenqueue_for_sending(d.m, d.handles),
                           !.result = "err", !.pc = "idle"]
    /\ UNCHANGED <<cell, arena, appendVars, id_table, inserted_items, build, crashed, nops,
                   table, first_id, profile, old_profile, last, hist>>

\* one round of the second loop of write_all: the rest of the buffer is
\* written without handles
SocketWrite ==
    /\ channel.pc = "write"
    /\ IF channel.buf = 0
       THEN channel' = [channel EXCEPT !.result = "ok", !.pc = "idle"]
       ELSE \E out \in SendOutcomes, n \in 1..channel.buf :
               channel' =
                 CASE out = "zero" -> [channel EXCEPT !.result = "err", !.pc = "idle"]
                   [] out = "some" -> [channel EXCEPT !.buf = @ - n]
                   [] out = "interrupted" -> channel
                   [] out = "error" -> [channel EXCEPT !.result = "err", !.pc = "idle"]
    /\ UNCHANGED <<cell, arena, appendVars, id_table, inserted_items, build, crashed, nops,
                   table, first_id, profile, old_profile, last, hist>>

NextChannel == EnqueueForSending \/ WriteAll \/ SendWithFd \/ SocketWrite
SpecChannel == Init /\ [][NextChannel]_vars

NextConcurrent ==
    \/ WriterLoad
    \/ WriterStep
    \/ \E r \in Readers : ReaderLoad(r)
    \/ \E r \in Readers : ReaderDeref(r)
SpecConcurrent == Init /\ [][NextConcurrent]_vars

----------------------------------------------------------------------------
(* The arena allocator on its own (SpecArena).                             *)

\* alignments of the arenas, sizes and alignments of the layouts asked
ArenaAlignments == {1, 4}
LayoutSizes == {0, 1, 3, 4, 5, 8}
LayoutAligns == {1, 4, 8}

InitArena ==
    /\ build \in {"debug", "release"}
    /\ crashed = "no"
    /\ nops = 0
    /\ table = InitTable
    /\ first_id = ("" :> StringId_ZERO)
    /\ profile = InitProfile
    /\ old_profile = NoProfile
    /\ last = [op |-> "new", out |-> "ok"]
    /\ hist = EmptyHist
    /\ id_table = InitIdTable
    /\ inserted_items = <<>>
    /\ atable = TableWriter_new(AppendCap, 1).t
    /\ written = <<>>
    /\ writer = WriterIdle
    /\ readers = [r \in Readers |-> ReaderIdle]
    /\ cell = InitCell
    /\ channel = InitChannel
    /\ arena \in {ArenaAllocator_with_capacity(alignment, ArenaCap).a :
                    alignment \in ArenaAlignments}

\* ArenaAllocator::allocate(layout)
ArenaAllocate ==
    /\ crashed = "no"
    /\ nops < MaxAllocs
    /\ \E size \in LayoutSizes, align \in LayoutAligns :
        \E r \in {ArenaAllocator_allocate(arena, size, align)} :
            /\ arena' = r.a
            /\ hist' = HistCall(hist, IF r.ok THEN "ok" ELSE "err",
                                 [op |-> "allocate", size |-> size,
                                  offset |-> r.offset, len |-> r.size])
            /\ last' = [op |-> "allocate", size |-> size, align |-> align,
                        out |-> IF r.ok THEN "ok" ELSE "err",
                        offset |-> r.offset, len |-> r.size, before |-> arena]
    /\ nops' = nops + 1
    /\ UNCHANGED <<cell, channel, appendVars, id_table, inserted_items, build, crashed, table,
                   first_id, profile, old_profile>>

NextArena == ArenaAllocate
SpecArena == InitArena /\ [][NextArena]_vars
SpecStrings == Init /\ [][NextStrings]_vars

\* aggregation of samples
NextAdd == AddFrom(AddSamples, MaxAdds)
SpecAdd == Init /\ [][NextAdd]_vars

\* endpoints and serialization
NextEndpoints ==
    \/ AddFrom(EndpointSamples, MaxEndpointOps)
    \/ AddEndpointFrom(SpanIds, EndpointNames, MaxEndpointOps)
    \/ Serialize(MaxEndpointOps + 1)
SpecEndpoints == Init /\ [][NextEndpoints]_vars

\* reset after any operations
NextReset ==
    \/ AddFrom(ResetSamples, MaxResetOps)
    \/ AddEndpointFrom(ResetSpanIds, ResetEndpointNames, MaxResetOps)
    \/ AddEndpointCountFrom(ResetEndpointNames, MaxResetOps)
    \/ AddUpscalingRuleFrom(ResetRules, MaxResetOps)
    \/ Reset(MaxResetOps + 1)
    \/ ResetFfi(MaxResetOps + 1)
SpecReset == Init /\ [][NextReset]_vars

\* endpoint counts and the duration of the serialized profile
NextSerialize ==
    \/ AddFrom(ResetSamples, MaxCountOps)
    \/ AddEndpointCountWith(CountedEndpoints, CountDeltas, MaxCountOps)
    \/ SerializeWith(SerializeEndTimes, SerializeDurations, MaxCountOps + 1)
    \/ SerializeFfi(SerializeEndTimes, SerializeDurationNanos, MaxCountOps + 1)
SpecSerialize == Init /\ [][NextSerialize]_vars

\* registration of upscaling rules
NextUpscaling == AddUpscalingRuleFrom(UpscalingRuleInputs, MaxRules)
SpecUpscaling == Init /\ [][NextUpscaling]_vars

\* a profile built without sample types and without a period
InitProfileNoTypes ==
    ProfileBuilder_build([period |-> None, sample_types |-> <<>>,
                          start_time |-> Some(StartTime), limits |-> Some(Limits)],
                         Now, TRUE, [bld |-> "release", ub |-> "fault"]).p

\* upscaling at serialization: the profile has the two sample types, or none
InitScaling ==
    /\ build \in {"debug", "release"}
    /\ crashed = "no"
    /\ nops = 0
    /\ table = InitTable
    /\ first_id = ("" :> StringId_ZERO)
    /\ profile \in {InitProfile, InitProfileNoTypes}
    /\ old_profile = NoProfile
    /\ last = [op |-> "new", out |-> "ok"]
    /\ hist = EmptyHist
    /\ id_table = InitIdTable
    /\ inserted_items = <<>>
    /\ atable = TableWriter_new(AppendCap, 1).t
    /\ written = <<>>
    /\ writer = WriterIdle
    /\ readers = [r \in Readers |-> ReaderIdle]
    /\ cell = InitCell
    /\ channel = InitChannel
    /\ arena = ArenaAllocator_with_capacity(1, ArenaCap).a
NextScaling ==
    \/ AddFrom(ScalingSamples, MaxScalingOps)
    \/ AddUpscalingRuleFrom(ScalingRules, MaxScalingOps)
    \/ AddEndpointFrom(ResetSpanIds, ResetEndpointNames, MaxScalingOps)
    \/ Serialize(MaxScalingOps + 1)
SpecScaling == InitScaling /\ [][NextScaling]_vars

----------------------------------------------------------------------------
(* Reading the profile back in the caller's terms.                         *)

\* the api label an internal label stands for
ApiLabelOf(p, l) ==
    IF l.tag = "Str"
    THEN ApiLabel(get_string(p, l.key), Some(get_string(p, l.str)), 0, None)
    ELSE ApiLabel(get_string(p, l.key), None, l.num,
                  IF l.num_unit = None THEN None
                  ELSE Some(get_string(p, l.num_unit[1])))

\* the api labels of a label set, in the order of the set
ApiLabelsOf(p, label_set_id) ==
    [i \in 1..Len(get_label_set(p, label_set_id).sorted_labels) |->
        ApiLabelOf(p, get_label(p, get_label_set(p, label_set_id).sorted_labels[i]))]

ApiFunctionOf(p, id) ==
    [name |-> get_string(p, p.functions.items[id + 1].name),
     system_name |-> get_string(p, p.functions.items[id + 1].system_name),
     filename |-> get_string(p, p.functions.items[id + 1].filename),
     start_line |-> p.functions.items[id + 1].start_line]

ApiMappingOf(p, id) ==
    [memory_start |-> p.mappings.items[id + 1].memory_start,
     memory_limit |-> p.mappings.items[id + 1].memory_limit,
     file_offset |-> p.mappings.items[id + 1].file_offset,
     filename |-> get_string(p, p.mappings.items[id + 1].filename),
     build_id |-> get_string(p, p.mappings.items[id + 1].build_id)]

ApiLocationOf(p, id) ==
    [mapping |-> ApiMappingOf(p, p.locations.items[id + 1].mapping_id),
     function |-> ApiFunctionOf(p, p.locations.items[id + 1].function_id),
     address |-> p.locations.items[id + 1].address,
     line |-> p.locations.items[id + 1].line]

\* the stack and the labels (as a bag) an internal Sample stands for
ApiKeyOf(p, sample) ==
    <<[j \in 1..Len(get_stacktrace(p, sample.stacktrace).locations) |->
          ApiLocationOf(p, get_stacktrace(p, sample.stacktrace).locations[j])],
      LabelBag(ApiLabelsOf(p, sample.labels))>>

Aggregated == profile.observations.aggregated
Timestamped == profile.observations.timestamped

\* the labels of the sample with the key "local root span id"
LrsiLabels(sample) ==
    SelectSeq(sample.labels, LAMBDA l : l.key = "local root span id")

----------------------------------------------------------------------------
(* The string interner (SpecStrings).                                      *)

\* C1: in every state of the string table reached by inserts, inserting a
\* string that was inserted before returns the id its first insert returned,
\* without inserting anything, and the empty string has id 0.
C1_InternIdempotent ==
    /\ StringTable_get_id(table, StringId_ZERO) = [out |-> "ok", str |-> ""]
    /\ \A s \in DOMAIN first_id \cup {""}, ub \in UB :
          StringTable_insert_full(table, s, build, ub)
            = [out |-> "ok", id |-> first_id[s], inserted |-> FALSE, t |-> table]
    /\ (last.op = "insert" /\ last.out \in {"ok", "overrun"})
          => last.id = first_id[last.str]

\* a string other than "" was inserted a second time, with other strings around
C1_Witness ==
    /\ last.op = "insert" /\ last.out = "ok" /\ ~last.inserted
    /\ last.str # "" /\ last.id > 0 /\ last.id + 1 < Len(table.vec)

----------------------------------------------------------------------------
(* Aggregation (SpecAdd).                                                  *)

\* C2: the aggregated observations are one per stack and label bag the
\* caller added without a timestamp, each with the element-wise sum of the
\* values added for it, whatever the order of the labels in each sample.
C2_AggregationSums ==
    /\ Cardinality({ApiKeyOf(profile, Aggregated[i].sample) : i \in 1..Len(Aggregated)})
          = Len(Aggregated)
    /\ {ApiKeyOf(profile, Aggregated[i].sample) : i \in 1..Len(Aggregated)}
          = DOMAIN hist.agg
    /\ \A i \in 1..Len(Aggregated) :
          Aggregated[i].values = hist.agg[ApiKeyOf(profile, Aggregated[i].sample)]

\* two samples with the labels in different orders were summed
C2_Witness ==
    /\ last.op = "add" /\ last.out = "ok" /\ Len(Aggregated) >= 2
    /\ \E i \in 1..Len(Aggregated) :
          /\ Aggregated[i].values = <<3, 15>>
          /\ ApiKeyOf(profile, Aggregated[i].sample) = <<<<Main>>, LabelBag(<<LPid, LThr>>)>>

\* C3: samples without a timestamp that differ in their stack or in their
\* labels are never merged: there are as many aggregated observations as
\* distinct (LabelSetId, StackTraceId) keys added, one for each, and as many
\* as distinct stacks-and-labels the caller added.
C3_DistinctKeysKept ==
    /\ Len(Aggregated) = Cardinality(hist.keys)
    /\ {Aggregated[i].sample : i \in 1..Len(Aggregated)} = hist.keys
    /\ Cardinality(hist.keys) = Cardinality(DOMAIN hist.agg)

\* observations that differ only in the stack, and only in the labels
C3_Witness ==
    /\ Len(Aggregated) >= 3
    /\ \E i, j \in 1..Len(Aggregated) :
          /\ Aggregated[i].sample.stacktrace # Aggregated[j].sample.stacktrace
          /\ Aggregated[i].sample.labels = Aggregated[j].sample.labels
    /\ \E i, j \in 1..Len(Aggregated) :
          /\ Aggregated[i].sample.stacktrace = Aggregated[j].sample.stacktrace
          /\ Aggregated[i].sample.labels # Aggregated[j].sample.labels

\* C4: every sample added with a non-zero end_timestamp_ns label is its own
\* timestamped observation, with that timestamp and its own values, in the
\* order of the calls, even when the stack and the other labels are the
\* same; none is merged into an aggregated observation.
C4_TimestampPassthrough ==
    /\ Len(Timestamped) = Len(hist.tsl)
    /\ \A i \in 1..Len(Timestamped) :
          /\ Timestamped[i].ts = hist.tsl[i].ts
          /\ Timestamped[i].values = hist.tsl[i].values
          /\ ApiKeyOf(profile, Timestamped[i].sample) = hist.tsl[i].key
    /\ Len(hist.tsl) > 0 /\ hist.agg = EmptyMap => Len(Aggregated) = 0

\* two samples with the same stack and labels and distinct timestamps
C4_Witness ==
    /\ Len(Timestamped) >= 2 /\ Len(Aggregated) = 0
    /\ \E i, j \in 1..Len(Timestamped) :
          /\ Timestamped[i].sample = Timestamped[j].sample
          /\ Timestamped[i].ts = 42 /\ Timestamped[j].ts = 43

\* C5: an add that returns an error leaves the label table, the label-set
\* table, the stack traces, the function, location and mapping tables and
\* the observations as they were.
C5_FailedAddUnchanged ==
    [][(last'.op = "add" /\ last'.out = "err")
          => /\ profile'.labels = profile.labels
             /\ profile'.label_sets = profile.label_sets
             /\ profile'.stack_traces = profile.stack_traces
             /\ profile'.functions = profile.functions
             /\ profile'.locations = profile.locations
             /\ profile'.mappings = profile.mappings
             /\ profile'.observations = profile.observations]_vars

\* the first add failed and yet the label table holds a label
C5_Witness ==
    /\ nops = 1 /\ last.op = "add" /\ last.out = "err"
    /\ Len(profile.labels) = 1 /\ Len(Aggregated) = 0 /\ Len(Timestamped) = 0

\* C6: an add of a sample with two labels of key "local root span id"
\* returns an error, and the numbers of aggregated and of timestamped
\* observations are what they were before the call.
C6_TwoLrsiRejected ==
    [][(last'.op = "add" /\ Len(LrsiLabels(last'.sample)) >= 2)
          => /\ last'.out = "err"
             /\ Len(profile'.observations.aggregated) = Len(Aggregated)
             /\ Len(profile'.observations.timestamped) = Len(Timestamped)]_vars

\* a sample with two such labels was refused by a profile with observations
C6_Witness ==
    /\ last.op = "add" /\ Len(LrsiLabels(last.sample)) >= 2 /\ last.out = "err"
    /\ Len(Aggregated) >= 1 /\ Len(Timestamped) >= 1

\* C9: a sample whose labels are a permutation of the labels of an earlier
\* sample gets the LabelSetId the earlier sample got.
C9_LabelSetCanonical ==
    /\ (last.op = "add" /\ last.out = "ok")
          => last.key.labels = hist.lsid[LabelBag(last.sample.labels)]
    /\ \A i \in 1..Len(Aggregated) :
          Aggregated[i].sample.labels
            = hist.lsid[LabelBag(ApiLabelsOf(profile, Aggregated[i].sample.labels))]

\* the labels came in one order and then in the other
C9_Witness ==
    /\ last.op = "add" /\ last.out = "ok"
    /\ last.sample.labels = <<LThr, LPid>>
    /\ <<<<Main>>, LabelBag(<<LPid, LThr>>)>> \in DOMAIN hist.agg
    /\ hist.agg[<<<<Main>>, LabelBag(<<LPid, LThr>>)>>] = <<3, 15>>
    /\ Len(get_label_set(profile, last.key.labels).sorted_labels) = 2

----------------------------------------------------------------------------
(* Endpoints in the serialized profile (SpecEndpoints).                    *)

\* the span id a label number stands for: num itself, or 2^64 + num
SpanIdOf(num) ==
    IF num >= 0 THEN U64(num)
    ELSE [i \in 1..4 |-> (Pow16 - 1) - U64(-num - 1)[i]]

\* the observation the i-th serialized sample was made from
ObservationOf(i) == Observations_iter(profile.observations)[i]

\* the labels of the i-th serialized sample that follow those of its label set
AddedLabels(i) ==
    SubSeq(last.encoded.profile.samples[i].labels,
           Len(ApiLabelsOf(profile, ObservationOf(i).sample.labels)) + 1,
           Len(last.encoded.profile.samples[i].labels))

\* ... those with the key "trace endpoint", as (str, num, num_unit)
AddedEndpoints(i) ==
    [j \in 1..Len(SelectSeq(AddedLabels(i),
                            LAMBDA l : last.encoded.profile.string_table[l.key + 1]
                                         = "trace endpoint")) |->
        [str |-> last.encoded.profile.string_table[
                    SelectSeq(AddedLabels(i),
                              LAMBDA l : last.encoded.profile.string_table[l.key + 1]
                                           = "trace endpoint")[j].str + 1],
         num |-> SelectSeq(AddedLabels(i),
                           LAMBDA l : last.encoded.profile.string_table[l.key + 1]
                                        = "trace endpoint")[j].num,
         num_unit |-> SelectSeq(AddedLabels(i),
                                LAMBDA l : last.encoded.profile.string_table[l.key + 1]
                                             = "trace endpoint")[j].num_unit]]

\* the "local root span id" labels of the i-th sample whose number has an endpoint
MappedLrsi(i) ==
    SelectSeq(LrsiLabels([labels |-> ApiLabelsOf(profile, ObservationOf(i).sample.labels)]),
              LAMBDA l : l.str = None /\ SpanIdOf(l.num) \in DOMAIN hist.endpoints)

\* C7: a serialized sample carries one added string label "trace endpoint",
\* with the endpoint last given for k, if its label set has a "local root
\* span id" label with the number k and add_endpoint(k, e) was called; it
\* carries no added "trace endpoint" label otherwise.
C7_EndpointEnrichment ==
    (last.op = "serialize" /\ last.out = "ok")
      => /\ Len(last.encoded.profile.samples) = Len(Aggregated) + Len(Timestamped)
         /\ \A i \in 1..Len(last.encoded.profile.samples) :
              IF MappedLrsi(i) # <<>>
              THEN AddedEndpoints(i)
                     = <<[str |-> hist.endpoints[SpanIdOf(MappedLrsi(i)[1].num)],
                          num |-> 0, num_unit |-> 0]>>
              ELSE AddedEndpoints(i) = <<>>

\* one serialized sample got its endpoint, one with a span id did not, and
\* one had a negative span id
C7_Witness ==
    /\ last.op = "serialize" /\ last.out = "ok"
    /\ \E i, j \in 1..Len(last.encoded.profile.samples) :
          /\ AddedEndpoints(i) # <<>>
          /\ AddedEndpoints(j) = <<>>
          /\ LrsiLabels([labels |-> ApiLabelsOf(profile, ObservationOf(j).sample.labels)])
               # <<>>
          /\ \E l \in Range(ApiLabelsOf(profile, ObservationOf(j).sample.labels)) :
                l.num = -1

----------------------------------------------------------------------------
(* Reset (SpecReset).                                                      *)

\* C8: a reset that succeeds leaves a profile with the sample types and the
\* period of before (as strings), with no function, label, label set,
\* location, mapping, stack trace, observation, endpoint, endpoint count or
\* upscaling rule, with "" at id 0 and the start time given (the current
\* time when none is given); what it returns is the profile of before.
C8_ResetSemantics ==
    [][(last'.op = "reset" /\ last'.out = "ok")
          => /\ extract_api_sample_types(profile') = extract_api_sample_types(profile)
             /\ extract_api_sample_types(profile') = SampleTypes
             /\ extract_api_period(profile') = extract_api_period(profile)
             /\ extract_api_period(profile') = Some(Period)
             /\ profile'.functions.items = <<>>
             /\ profile'.labels = <<>>
             /\ profile'.label_sets = <<>>
             /\ profile'.locations.items = <<>>
             /\ profile'.mappings.items = <<>>
             /\ profile'.stack_traces = <<>>
             /\ profile'.observations = Observations_default
             /\ profile'.endpoints.mappings = EmptyMap
             /\ profile'.endpoints.stats = EmptyMap
             /\ profile'.upscaling_rules.rules = EmptyMap
             /\ StringTable_get_id(profile'.strings, StringId_ZERO)
                  = [out |-> "ok", str |-> ""]
             /\ profile'.start_time = IF last'.start_time = None THEN Now
                                      ELSE last'.start_time[1]
             /\ old_profile' = profile]_vars

\* a profile with an observation, an endpoint and a rule was reset
C8_Witness ==
    /\ last.op = "reset" /\ last.out = "ok" /\ last.start_time # None
    /\ Len(old_profile.observations.aggregated) + Len(old_profile.observations.timestamped)
         >= 1
    /\ old_profile.endpoints.mappings # EmptyMap
    /\ old_profile.upscaling_rules.rules # EmptyMap
    /\ profile.labels = <<>> /\ profile.observations = Observations_default

----------------------------------------------------------------------------
(* Upscaling rules (SpecUpscaling).                                        *)

\* the registered rules with the label name and value of the rule
SameKeyRules(h, rule) ==
    {x \in h.rules : x.label_name = rule.label_name /\ x.label_value = rule.label_value}

\* the registered rules on the other side of the by-value / by-label divide
CrossRules(h, rule) ==
    IF rule.label_name = "" /\ rule.label_value = ""
    THEN {x \in h.rules : ~(x.label_name = "" /\ x.label_value = "")}
    ELSE {x \in h.rules : x.label_name = "" /\ x.label_value = ""}

\* the offsets of the rule are offsets of the sample types
OffsetsInRange(rule) ==
    \A o \in Range(rule.offset_values) : o < Len(SampleTypes)

\* the info of the rule is valid for the sample types
InfoValid(rule) ==
    rule.info.tag = "Poisson"
      => /\ rule.info.sum_value_offset < Len(SampleTypes)
         /\ rule.info.count_value_offset < Len(SampleTypes)
         /\ rule.info.sampling_distance # 0

\* a rule whose offsets meet those of a registered rule of the same label
\* name and value is refused, in whatever order its offsets are listed
OverlapRefused ==
    (/\ last'.op = "add_upscaling_rule"
     /\ \E x \in SameKeyRules(hist, last'.rule) :
           x.offsets \cap Range(last'.rule.offset_values) # {})
      => /\ last'.out = "err"
         /\ profile'.upscaling_rules = profile.upscaling_rules

\* the rule of the step is registered under its label name and value
Registered ==
    /\ last'.out = "ok"
    /\ \E key \in DOMAIN profile'.upscaling_rules.rules :
          /\ get_string(profile', key[1]) = last'.rule.label_name
          /\ get_string(profile', key[2]) = last'.rule.label_value
          /\ \E i \in 1..Len(profile'.upscaling_rules.rules[key]) :
                /\ Range(profile'.upscaling_rules.rules[key][i].values_offset)
                     = Range(last'.rule.offset_values)
                /\ profile'.upscaling_rules.rules[key][i].info = last'.rule.info

\* C10 as stated, for rules that are valid by themselves (offsets in range,
\* valid info): ... and a rule with the label name and value of a
\* registered rule and offsets disjoint from it is accepted.
C10_Original ==
    [][/\ OverlapRefused
       /\ (/\ last'.op = "add_upscaling_rule"
           /\ SameKeyRules(hist, last'.rule) # {}
           /\ \A x \in SameKeyRules(hist, last'.rule) :
                 x.offsets \cap Range(last'.rule.offset_values) = {}
           /\ OffsetsInRange(last'.rule)
           /\ InfoValid(last'.rule))
            => Registered]_vars

\* C10: a rule whose offsets meet those of a registered rule of the same
\* label name and value is refused, in whatever order its offsets are
\* listed; a rule with the label name and value of registered rules and
\* offsets disjoint from theirs is accepted when its offsets are in range,
\* its info is valid, and its offsets meet no rule across the by-value /
\* by-label divide.
C10_UpscalingCollision ==
    [][/\ OverlapRefused
       /\ (/\ last'.op = "add_upscaling_rule"
           /\ SameKeyRules(hist, last'.rule) # {}
           /\ \A x \in SameKeyRules(hist, last'.rule) :
                 x.offsets \cap Range(last'.rule.offset_values) = {}
           /\ OffsetsInRange(last'.rule)
           /\ InfoValid(last'.rule)
           /\ \A x \in CrossRules(hist, last'.rule) :
                 x.offsets \cap Range(last'.rule.offset_values) = {})
            => Registered]_vars

\* two rules of one label on disjoint offsets are registered, and a third
\* on both offsets, listed in descending order, was refused
C10_Witness ==
    /\ last.op = "add_upscaling_rule" /\ last.out = "err"
    /\ last.rule.offset_values = <<1, 0>> /\ InfoValid(last.rule)
    /\ Cardinality(SameKeyRules(hist, last.rule)) = 2

\* the offsets targeted by the by-value rules and by the by-label rules of p
ByValueOffsets(p) ==
    OffsetsOf(p.upscaling_rules.rules, DOMAIN p.upscaling_rules.rules \cap {ByValueKey})
ByLabelOffsets(p) ==
    OffsetsOf(p.upscaling_rules.rules, DOMAIN p.upscaling_rules.rules \ {ByValueKey})

\* C11: a rule whose offsets meet those of a registered rule on the other
\* side of the by-value / by-label divide is refused and registers nothing,
\* whichever of the two came first; so after every add_upscaling_rule no
\* offset is targeted by both a by-value rule and a by-label rule.
C11_ByValueByLabelExclusive ==
    [][last'.op = "add_upscaling_rule"
         => /\ (\E x \in CrossRules(hist, last'.rule) :
                   x.offsets \cap Range(last'.rule.offset_values) # {})
                 => /\ last'.out = "err"
                    /\ profile'.upscaling_rules = profile.upscaling_rules
            /\ ByValueOffsets(profile') \cap ByLabelOffsets(profile') = {}
            /\ \A x \in hist'.rules : \A y \in CrossRules(hist', x) :
                  x.offsets \cap y.offsets = {}]_vars

\* a by-value rule, valid by itself and the first of its kind, was refused
\* because a by-label rule is registered on one of its offsets
C11_Witness ==
    /\ last.op = "add_upscaling_rule" /\ last.out = "err"
    /\ last.rule.label_name = "" /\ last.rule.label_value = ""
    /\ OffsetsInRange(last.rule) /\ InfoValid(last.rule)
    /\ SameKeyRules(hist, last.rule) = {}
    /\ \E x \in CrossRules(hist, last.rule) :
          x.offsets \cap Range(last.rule.offset_values) # {}
    /\ ByLabelOffsets(profile) # {} /\ ByValueOffsets(profile) = {}

----------------------------------------------------------------------------
(* Upscaling at serialization (SpecScaling).                               *)

\* the string an id of the serialized profile stands for
EncodedString(id) == last.encoded.profile.string_table[id + 1]

\* the i-th serialized sample has a string label with the name and value
SampleHasLabel(i, name, value) ==
    \E l \in Range(last.encoded.profile.samples[i].labels) :
        EncodedString(l.key) = name /\ l.str # 0 /\ EncodedString(l.str) = value

\* the registered rule x applies to the i-th serialized sample
RuleApplies(x, i) ==
    \/ x.label_name = "" /\ x.label_value = ""
    \/ SampleHasLabel(i, x.label_name, x.label_value)

\* C12: in a serialized profile, a sample to which a registered Poisson rule
\* applies and whose stored value at the count offset of the rule is zero
\* has, at every offset the rule targets, the value that is stored.
C12_PoissonZeroSafety ==
    (last.op = "serialize" /\ last.out = "ok")
      => \A i \in 1..Len(last.encoded.profile.samples) : \A x \in hist.rules :
            (/\ x.info.tag = "Poisson"
             /\ RuleApplies(x, i)
             /\ ObservationOf(i).values[x.info.count_value_offset + 1] = 0)
              => \A o \in x.offsets :
                    last.encoded.profile.samples[i].values[o + 1]
                      = ObservationOf(i).values[o + 1]

\* a Poisson rule of a label left the sample with no count as stored, and
\* changed another sample of the label that has a count
C12_Witness ==
    /\ last.op = "serialize" /\ last.out = "ok"
    /\ \E x \in hist.rules :
          /\ x.info.tag = "Poisson" /\ x.label_name = "thread" /\ x.offsets = {0, 1}
          /\ \E i, j \in 1..Len(last.encoded.profile.samples) :
                /\ RuleApplies(x, i) /\ RuleApplies(x, j)
                /\ ObservationOf(i).values = <<0, 1>>
                /\ last.encoded.profile.samples[i].values = <<0, 1>>
                /\ ObservationOf(j).values = <<2, 1>>
                /\ last.encoded.profile.samples[j].values # <<2, 1>>

\* the rule is one the profile p must refuse by itself: an offset that is no
\* offset of the sample types, or a Poisson info with such an offset or with
\* a sampling distance of 0
RuleInvalid(p, rule) ==
    \/ \E o \in Range(rule.offset_values) : o >= Len(p.sample_types)
    \/ /\ rule.info.tag = "Poisson"
       /\ \/ rule.info.sum_value_offset >= Len(p.sample_types)
          \/ rule.info.count_value_offset >= Len(p.sample_types)
          \/ rule.info.sampling_distance = 0

\* the samples a serialization of p emits
SerializedSamples(p) ==
    Bind(pprof_Profile_try_from(p), LAMBDA r :
        IF r.out = "ok" THEN r.profile.samples ELSE <<>>)

\* C13: add_upscaling_rule with an offset that is no offset of the sample
\* types, or with a Poisson info whose sum or count offset is out of range
\* or whose sampling distance is 0, returns an error, registers no rule, and
\* a serialization after it emits the samples a serialization before it
\* would have emitted.
C13_InvalidRuleRejected ==
    [][(last'.op = "add_upscaling_rule" /\ RuleInvalid(profile, last'.rule))
          => /\ last'.out = "err"
             /\ profile'.upscaling_rules = profile.upscaling_rules
             /\ SerializedSamples(profile') = SerializedSamples(profile)]_vars

\* a rule on offset 0 was given to a profile without sample types, and the
\* call did not return
C13_Witness ==
    /\ last.op = "add_upscaling_rule" /\ last.out = "panic" /\ crashed = "panic"
    /\ build = "debug"
    /\ Len(profile.sample_types) = 0
    /\ last.rule.offset_values = <<0>> /\ last.rule.info.tag = "Proportional"

----------------------------------------------------------------------------
(* Validation of the samples (SpecAdd).                                    *)

\* C14: an add of a sample whose number of values is not the number of
\* sample types returns an error and leaves the whole profile, its string
\* table included, as it was.
C14_ArityMismatchUnchanged ==
    [][(last'.op = "add" /\ Len(last'.sample.values) # Len(profile.sample_types))
          => /\ last'.out = "err"
             /\ profile' = profile]_vars

\* a sample with one value and a label whose key is not interned was
\* refused by a profile that holds observations
C14_Witness ==
    /\ last.op = "add" /\ last.out = "err"
    /\ Len(last.sample.values) = 1 /\ Len(profile.sample_types) = 2
    /\ \E l \in Range(last.sample.labels) : l.key \notin DOMAIN profile.strings.map
    /\ Len(Aggregated) >= 1

\* the labels of the sample with the key "end_timestamp_ns"
TimestampLabels(sample) ==
    SelectSeq(sample.labels, LAMBDA l : l.key = "end_timestamp_ns")

\* the label is a number other than 0 and carries no unit
TimestampLabelValid(l) == l.str = None /\ l.num # 0 /\ l.num_unit = None

\* C15: an add of a sample that has an end_timestamp_ns label whose value is
\* a string, whose number is 0 or which carries a unit returns an error; an
\* add that succeeds on a sample with an end_timestamp_ns label stores a
\* label set without that label and an observation with the number of the
\* label as its timestamp.
C15_TimestampLabelChecked ==
    [][(last'.op = "add" /\ Len(last'.sample.values) = Len(profile.sample_types))
          => /\ (\E l \in Range(TimestampLabels(last'.sample)) : ~TimestampLabelValid(l))
                  => last'.out = "err"
             /\ (last'.out = "ok" /\ TimestampLabels(last'.sample) # <<>>)
                  => /\ last'.timestamp = Some(TimestampLabels(last'.sample)[1].num)
                     /\ TimestampLabels([labels |->
                            ApiLabelsOf(profile', last'.key.labels)]) = <<>>
                     /\ profile'.observations.timestamped
                          = Append(Timestamped,
                                   [sample |-> last'.key,
                                    ts |-> TimestampLabels(last'.sample)[1].num,
                                    values |-> last'.sample.values])]_vars

\* a sample with a second end_timestamp_ns label that is a string was
\* accepted, with the number of the first as its timestamp
C15_Witness ==
    /\ last.op = "add" /\ last.out = "ok"
    /\ Len(TimestampLabels(last.sample)) = 2
    /\ TimestampLabels(last.sample)[2].str # None
    /\ Len(Timestamped) >= 1 /\ Timestamped[Len(Timestamped)].ts = 42

\* the "local root span id" labels of the label sets stored in p are at most
\* one per set, each a number other than 0
StoredLrsiOk(p) ==
    \A i \in 1..Len(p.label_sets) :
        /\ Len(LrsiLabels([labels |-> ApiLabelsOf(p, i - 1)])) <= 1
        /\ \A l \in Range(LrsiLabels([labels |-> ApiLabelsOf(p, i - 1)])) :
              l.str = None /\ l.num # 0

\* C16: an add of a sample with a "local root span id" label that is a
\* string or the number 0 returns an error, and after every add no stored
\* label set holds a "local root span id" label that is a string or 0, nor
\* two labels with that key.
C16_LrsiLabelChecked ==
    [][last'.op = "add"
         => /\ (\E l \in Range(LrsiLabels(last'.sample)) : l.str # None \/ l.num = 0)
                 => last'.out = "err"
            /\ StoredLrsiOk(profile')]_vars

\* a sample with a string "local root span id" was refused by a profile
\* that stores a label set with a numeric one
C16_Witness ==
    /\ last.op = "add" /\ last.out = "err"
    /\ \E l \in Range(LrsiLabels(last.sample)) : l.str # None
    /\ \E i \in 1..Len(profile.label_sets) :
          LrsiLabels([labels |-> ApiLabelsOf(profile, i - 1)]) # <<>>

\* the serialization of p with the arguments of the serialization recorded
\* in l gives what l recorded
SerializesAs(p, l) ==
    \E r \in {serialize(p, l.end_time, l.duration, Now)} :
        /\ r.out = l.out
        /\ r.start = l.encoded.start /\ r.end = l.encoded.end
        /\ r.profile = l.encoded.profile
        /\ r.endpoints_stats = l.encoded.endpoints_stats

\* C17: a serialization leaves the whole profile as it was, so that a second
\* serialization with the same end time and duration gives the same
\* result, and a sample added right after a serialization, with the stack
\* and labels of a sample added before it and no timestamp, is summed into
\* the observation of that sample.
C17_SerializeNonDestructive ==
    [][/\ last'.op = "serialize"
            => /\ profile' = profile
               /\ SerializesAs(profile', last')
       /\ (/\ last.op = "serialize" /\ last'.op = "serialize"
           /\ last'.end_time = last.end_time /\ last'.duration = last.duration)
            => last'.encoded = last.encoded
       /\ (/\ last.op = "serialize" /\ last'.op = "add" /\ last'.out = "ok"
           /\ ApiTimestamp(last'.sample) = None
           /\ ApiKey(last'.sample) \in DOMAIN hist.agg)
            => /\ Len(profile'.observations.aggregated) = Len(Aggregated)
               /\ \E i \in 1..Len(Aggregated) :
                     /\ Aggregated[i].sample = last'.key
                     /\ profile'.observations.aggregated[i].values
                          = SumValues(Aggregated[i].values, last'.sample.values)]_vars

\* a profile with an endpoint and a rule was serialized, a sample was
\* emitted with upscaled values, and the values stored are those added
C17_Witness ==
    /\ last.op = "serialize" /\ last.out = "ok"
    /\ profile.endpoints.mappings # EmptyMap
    /\ hist.rules # {}
    /\ \E i \in 1..Len(last.encoded.profile.samples) :
          /\ last.encoded.profile.samples[i].values # ObservationOf(i).values
          /\ \E k \in DOMAIN hist.agg : hist.agg[k] = ObservationOf(i).values

----------------------------------------------------------------------------
(* The reserved strings (SpecReset).                                       *)

\* the reserved strings, in the order of their ids
ReservedStrings == <<"", "local root span id", "trace endpoint", "end_timestamp_ns">>

\* in p each reserved string has its id, and the profile refers to the
\* reserved labels by these ids
ReservedIdsOf(p) ==
    /\ \A k \in 1..Len(ReservedStrings) :
          /\ StringTable_get_id(p.strings, k - 1)
               = [out |-> "ok", str |-> ReservedStrings[k]]
          /\ \A bld \in {"debug", "release"} :
                intern(p, ReservedStrings[k], [bld |-> bld, ub |-> "fault"])
                  = [out |-> "ok", id |-> k - 1, p |-> p]
    /\ p.endpoints.local_root_span_id_label = 1
    /\ p.endpoints.endpoint_label = 2
    /\ p.timestamp_key = 3

\* C18: in the profile as constructed, after every operation on it and
\* after every reset, "" has id 0, "local root span id" id 1, "trace
\* endpoint" id 2 and "end_timestamp_ns" id 3; the same holds of the profile
\* a reset returned.
C18_ReservedStringIds ==
    /\ ReservedIdsOf(profile)
    /\ old_profile # NoProfile => ReservedIdsOf(old_profile)

\* a sample with labels was added to a profile that a reset left, and the
\* profile the reset returned holds strings of its own
C18_Witness ==
    /\ last.op = "add" /\ last.out = "ok"
    /\ old_profile # NoProfile
    /\ Len(old_profile.strings.vec) > Len(InitProfile.strings.vec)
    /\ Len(profile.strings.vec) > Len(InitProfile.strings.vec)
    /\ Len(profile.labels) >= 1

----------------------------------------------------------------------------
(* Identifiers of the string interner (SpecStrings).                       *)

\* C19: the ids of the strings inserted are 0, 1, 2, ... in the order of
\* their first insert: a string that is new gets the number of distinct
\* strings inserted before it, get_id of the id an insert returned gives
\* the string inserted, and after any further inserts the id every string
\* got at its first insert still gives that string.
C19_StringIdsDense ==
    /\ {first_id[s] : s \in DOMAIN first_id} = 0..(Cardinality(DOMAIN first_id) - 1)
    /\ \A s \in DOMAIN first_id :
          StringTable_get_id(table, first_id[s]) = [out |-> "ok", str |-> s]
    /\ (last.op = "insert" /\ last.out \in {"ok", "overrun"})
          => /\ StringTable_get_id(table, last.id) = [out |-> "ok", str |-> last.str]
             /\ last.inserted => last.id = Cardinality(DOMAIN first_id) - 1
    /\ StringTable_get_id(table, Cardinality(DOMAIN first_id)).out = "panic"

\* the third distinct string was inserted after a repeated insert, and got
\* the id 2
C19_Witness ==
    /\ last.op = "insert" /\ last.out = "ok" /\ last.inserted
    /\ last.id = 2 /\ nops >= 3
    /\ Cardinality(DOMAIN first_id) = 3

----------------------------------------------------------------------------
(* The entity table (SpecTable).                                           *)

\* C20: an insert_full that returns gives (n, true), n the number of
\* distinct items inserted before, when no equal item is stored, and the
\* id of the stored item with false when an equal item is stored; iter,
\* to_pprof_vec and get_id give the items in the order of their first
\* insert, each at its id; each item lies in the arena at its id times the
\* size of an item.
C20_TableDedup ==
    /\ (last.op = "insert_full" /\ last.out = "ok")
          => /\ last.inserted <=> last.item \notin Range(last.before)
             /\ last.inserted => last.id = Cardinality(Range(last.before))
             /\ ~last.inserted => last.before[last.id + 1] = last.item
             /\ ~last.inserted => id_table.items = last.before
    /\ IdTable_iter(id_table) = inserted_items
    /\ Cardinality(Range(inserted_items)) = Len(inserted_items)
    /\ TestItem_to_pprof_vec(id_table)
          = [i \in 1..Len(inserted_items) |-> [id |-> i - 1, name |-> inserted_items[i].name]]
    /\ \A i \in 1..Len(inserted_items), ub \in UB, junk \in TestItems :
          IdTable_get_id(id_table, i - 1, TestItemSize, TestItem(0), ub, junk)
            = [out |-> "ok", item |-> inserted_items[i]]
    /\ id_table.arena.len - id_table.arena.remaining_capacity
          = Len(inserted_items) * TestItemSize

\* an item equal to the first one stored was inserted when two items were
\* stored
C20_Witness ==
    /\ last.op = "insert_full" /\ last.out = "ok" /\ ~last.inserted
    /\ last.id = 0 /\ Len(inserted_items) = 2 /\ nops >= 3

----------------------------------------------------------------------------
(* A string that does not fit (SpecStrings).                               *)

\* the bytes of str do not fit what is left of the arena of the bytes
ArenaFullFor(t, str) == t.bytes.len + Len(str) > t.bytes.cap

\* C21: an insert of a new string that does not fit what is left of the
\* arena returns AllocError, and leaves the table as it was.
C21_FullArenaAllocError ==
    [][(last'.op = "insert" /\ last'.str \notin DOMAIN table.map
          /\ ArenaFullFor(table, last'.str))
          => (last'.out = "err" /\ table' = table /\ crashed' = "no")]_vars

\* a new string that did not fit was inserted, and the insert panicked
C21_Witness ==
    /\ last.op = "insert" /\ last.out = "panic" /\ crashed = "panic"
    /\ last.str \notin DOMAIN table.map
    /\ ArenaFullFor(table, last.str)
    /\ Len(table.vec) >= 2

----------------------------------------------------------------------------
(* Fetching from the append-only table (SpecAppend).                       *)

\* C22: try_fetch(i) returns an element if and only if i is below the
\* published length, and an error otherwise; the element returned is the
\* slot at offset i, which for a table of bytes is the i-th item added.
C22_TryFetchBelowLen ==
    last.op = "try_fetch"
      => /\ last.out \in {"ok", "err"}
         /\ last.out = "ok" <=> last.offset < atable.len
         /\ (last.out = "ok" /\ last.offset < atable.cap)
              => /\ last.item = atable.mem[last.offset + 1]
                 /\ atable.size = 1 => last.item = written[last.offset + 1]

\* the last element of a table of three or more was fetched
C22_Witness ==
    /\ last.op = "try_fetch" /\ last.out = "ok"
    /\ last.offset = atable.len - 1 /\ atable.len >= 3 /\ atable.len <= atable.cap
    /\ last.item = written[atable.len]

\* offset + len as u32, <<>> when it overflows
FetchEnd(l) == checked_add_u32(l.offset, l.len)

\* C23: try_fetch_range(i, n) returns the n elements from offset i if and
\* only if i + n does not overflow and i + n <= the published length, the
\* case i + n = length included; otherwise it returns an error.
C23_TryFetchRangeInclusive ==
    last.op = "try_fetch_range"
      => /\ last.out = "ok"
              <=> /\ FetchEnd(last) # <<>>
                  /\ ~LessU32(U32(atable.len), FetchEnd(last)[1])
         /\ (last.out = "ok" /\ atable.len <= atable.cap)
              => last.slice = [k \in 1..U32Val(last.len) |->
                                 atable.mem[U32Val(last.offset) + k]]

\* the range fetched ended at the published length and was refused
C23_Witness ==
    /\ last.op = "try_fetch_range" /\ last.out = "out of bounds"
    /\ FetchEnd(last) = <<U32(atable.len)>>
    /\ atable.len >= 2 /\ atable.len <= atable.cap
    /\ last.offset = U32(0)

\* a range that ends below the published length was fetched
C23_WitnessBelow ==
    /\ last.op = "try_fetch_range" /\ last.out = "ok"
    /\ last.len = U32(2) /\ last.offset = U32(1)
    /\ last.slice = <<written[2], written[3]>>

----------------------------------------------------------------------------
(* Adding to the append-only table (SpecAppend).                           *)

\* the number of elements the last add or add_slice was given
AddedCount(l) == IF l.op = "add" THEN 1 ELSE Len(l.items)

\* C24: add and add_slice succeed whenever the length after them does not
\* exceed the capacity: add returns the offset it wrote the item at,
\* add_slice returns the slice of the region holding the items, and the
\* length grows by the number of items.
C24_PanicsOnlyWhenFull ==
    (last.op \in {"add", "add_slice"}
        /\ last.before.len + AddedCount(last) <= last.before.cap)
      => /\ last.out = "ok" /\ crashed = "no"
         /\ atable.len = last.before.len + AddedCount(last)
         /\ last.op = "add"
              => /\ last.offset = last.before.len
                 /\ atable.mem[last.offset + 1] = last.item
         /\ last.op = "add_slice"
              => /\ last.slice = last.items
                 /\ \A k \in 1..Len(last.items) :
                        atable.mem[last.before.len + k] = last.items[k]

\* add_slice panicked on bytes that fit the capacity of a table of bytes
C24_Witness ==
    /\ last.op = "add_slice" /\ last.out = "panic" /\ crashed = "panic"
    /\ last.before.size = 1
    /\ last.before.len > 0
    /\ last.before.len + Len(last.items) < last.before.cap

\* the statement for add alone
C24_AddAlone == last.op = "add_slice" \/ C24_PanicsOnlyWhenFull

\* the statement for the add_slice calls with offset <= cap - (offset + n)
\* on a table of bytes
C24_SliceOfBytes ==
    (last.op = "add_slice"
        /\ (last.before.size # 1
            \/ 2 * last.before.len + Len(last.items) > last.before.cap))
    \/ C24_PanicsOnlyWhenFull

----------------------------------------------------------------------------
(* One writer and the readers (SpecConcurrent).                            *)

\* C25: with one writer and the readers interleaved in any way, a try_fetch
\* that does not fail gives the item the writer added at that offset, whole;
\* every slot below the published length holds the item added there; and
\* the length never decreases and no slot below it ever changes.
C25_ReadersSeeWrittenItems ==
    /\ [](/\ \A r \in Readers :
               readers[r].out = "ok"
                 => /\ readers[r].item = written[readers[r].offset + 1]
                    /\ readers[r].item \in Items
          /\ \A i \in 1..atable.len : atable.mem[i] = written[i])
    /\ [][/\ atable'.len >= atable.len
          /\ \A i \in 1..atable.len : atable'.mem[i] = atable.mem[i]]_vars

\* a reader was refused the offset of the second item before its length
\* was stored, and another reader was given the item at that offset
C25_Witness ==
    \E r \in Readers :
        /\ readers[r].out = "ok"
        /\ readers[r].offset = 1 /\ readers[r].item = written[2]
        /\ \E q \in Readers : q # r /\ readers[q].out = "err" /\ readers[q].offset = 1
        /\ atable.len = 2

----------------------------------------------------------------------------
(* The arena allocator (SpecArena).                                        *)

\* the least multiple of a that is not below size
PaddedTo(size, a) == ((size + a - 1) \div a) * a

\* C26: allocate(layout) fails when the alignment of the layout exceeds
\* the alignment A of the arena or the size padded to a multiple of A
\* exceeds the remaining capacity, and then leaves the remaining capacity
\* as it was; otherwise it succeeds, at the offset of the bytes used so
\* far, and the remaining capacity decreases by the padded size.
C26_ArenaAllocate ==
    last.op = "allocate"
      => /\ last.out = "err"
              <=> \/ last.align > last.before.alignment
                  \/ PaddedTo(last.size, last.before.alignment)
                       > last.before.remaining_capacity
         /\ last.out = "err" => arena = last.before
         /\ last.out = "ok"
              => /\ arena.remaining_capacity = last.before.remaining_capacity
                       - PaddedTo(last.size, last.before.alignment)
                 /\ last.len = PaddedTo(last.size, last.before.alignment)
                 /\ last.size > 0
                      => last.offset = last.before.len - last.before.remaining_capacity
                 /\ arena.len = last.before.len
                 /\ arena.alignment = last.before.alignment

\* an allocation of an acceptable alignment did not fit what was left of a
\* partly used arena
C26_Witness ==
    /\ last.op = "allocate" /\ last.out = "err"
    /\ last.align <= last.before.alignment
    /\ last.before.remaining_capacity > 0
    /\ last.before.remaining_capacity < last.before.len
    /\ arena = last.before

\* an allocation took exactly what was left of the arena
C26_WitnessExact ==
    /\ last.op = "allocate" /\ last.out = "ok"
    /\ arena.remaining_capacity = 0 /\ last.len > 0
    /\ last.before.remaining_capacity < last.before.len

----------------------------------------------------------------------------
(* The entities of the serialized profile (SpecScaling).                   *)

\* the entities emitted for table t are its items in the order of their
\* offsets, the item at offset i with id i + 1, which is one more than the
\* id insert gives for it
EmittedInOrder(emitted, t, size) ==
    /\ Len(emitted) = IdTable_len(t)
    /\ \A i \in 1..Len(emitted) :
          /\ emitted[i].id = i
          /\ emitted[i].id # 0
          /\ emitted[i].item = t.items[i]
          /\ IdTable_insert_full(t, emitted[i].item, size, ItemAlign).id + 1
               = emitted[i].id

\* C27: the mappings, locations and functions of a serialized profile are
\* those of the tables in insertion order, the entity at offset i with id
\* i + 1; no entity has id 0.
C27_EntitiesOneBased ==
    (last.op = "serialize" /\ last.out = "ok")
      => /\ EmittedInOrder(last.encoded.profile.mappings, profile.mappings, MappingSize)
         /\ EmittedInOrder(last.encoded.profile.locations, profile.locations, LocationSize)
         /\ EmittedInOrder(last.encoded.profile.functions, profile.functions, FunctionSize)
         /\ \A i \in 1..Len(last.encoded.profile.samples) :
              \A j \in 1..Len(last.encoded.profile.samples[i].location_ids) :
                 last.encoded.profile.samples[i].location_ids[j]
                    \in 1..Len(last.encoded.profile.locations)

\* a profile of two functions, two locations and a mapping was serialized
C27_Witness ==
    /\ last.op = "serialize" /\ last.out = "ok"
    /\ Len(last.encoded.profile.functions) = 2
    /\ Len(last.encoded.profile.locations) = 2
    /\ Len(last.encoded.profile.mappings) = 1
    /\ Len(last.encoded.profile.samples) = 2

----------------------------------------------------------------------------
(* The order of the labels of a serialized sample (SpecEndpoints).         *)

\* a label of the serialized profile with its strings read from the string
\* table of the serialized profile (0 is no string)
DecodedLabel(l) ==
    [key |-> last.encoded.profile.string_table[l.key + 1],
     str |-> IF l.str = 0 THEN "" ELSE last.encoded.profile.string_table[l.str + 1],
     num |-> l.num,
     num_unit |-> IF l.num_unit = 0 THEN ""
                  ELSE last.encoded.profile.string_table[l.num_unit + 1]]

\* a label of the caller in the same form
FlatLabel(l) ==
    [key |-> l.key,
     str |-> IF l.str = None THEN "" ELSE l.str[1],
     num |-> l.num,
     num_unit |-> IF l.num_unit = None THEN "" ELSE l.num_unit[1]]

\* the ids of the labels of the label set of the i-th serialized sample
LabelIdsOf(i) == get_label_set(profile, ObservationOf(i).sample.labels).sorted_labels

\* the labels serialize adds to the i-th sample: the endpoint of its span id
\* if it has one, then the timestamp the caller gave it if it has one
ExpectedAddedLabels(i) ==
    (IF MappedLrsi(i) # <<>>
     THEN <<[key |-> "trace endpoint",
             str |-> hist.endpoints[SpanIdOf(MappedLrsi(i)[1].num)],
             num |-> 0, num_unit |-> ""]>>
     ELSE <<>>)
    \o (IF i > Len(Aggregated)
        THEN <<[key |-> "end_timestamp_ns", str |-> "",
                num |-> hist.tsl[i - Len(Aggregated)].ts, num_unit |-> ""]>>
        ELSE <<>>)

\* C28: the labels of every serialized sample are the labels of its label
\* set in ascending order of their ids (the order in which the labels were
\* first interned), then the "trace endpoint" label if its span id has an
\* endpoint, then the "end_timestamp_ns" label with the timestamp given at
\* add if it was added with one.
C28_LabelOrder ==
    (last.op = "serialize" /\ last.out = "ok")
      => \A i \in 1..Len(last.encoded.profile.samples) :
            /\ \A k \in 1..(Len(LabelIdsOf(i)) - 1) :
                  LabelIdsOf(i)[k] <= LabelIdsOf(i)[k + 1]
            /\ \A k \in 1..Len(LabelIdsOf(i)) :
                  DecodedLabel(last.encoded.profile.samples[i].labels[k])
                    = FlatLabel(ApiLabelOf(profile, get_label(profile, LabelIdsOf(i)[k])))
            /\ [k \in 1..Len(AddedLabels(i)) |-> DecodedLabel(AddedLabels(i)[k])]
                 = ExpectedAddedLabels(i)

\* a sample given as (timestamp, span id, pid) after pid was interned first
\* was serialized as (pid, span id, endpoint, timestamp)
C28_Witness ==
    /\ last.op = "serialize" /\ last.out = "ok"
    /\ \E i \in 1..Len(last.encoded.profile.samples) :
          [k \in 1..Len(last.encoded.profile.samples[i].labels) |->
              DecodedLabel(last.encoded.profile.samples[i].labels[k]).key]
            = <<LPid.key, "local root span id", "trace endpoint", "end_timestamp_ns">>

----------------------------------------------------------------------------
\* the duration between the start and the end of the encoded profile as the
\* clock tells it: nothing when the end is earlier than the start
ClockNanos(encoded) ==
    IF encoded.end < encoded.start THEN <<0, 0, 0>>
    ELSE <<0, 0, encoded.end - encoded.start>>

\* C29: serialize sets duration_nanos to the duration it is given, and
\* without one to the end minus the start of the profile, 0 when the end is
\* earlier than the start; the value is at most i64::MAX and never negative.
\* Through ddog_prof_Profile_serialize a negative duration_nanos counts as
\* no duration.
C29_DurationNanos ==
    /\ (last.op = "serialize" /\ last.out = "ok") =>
         /\ (last.duration # None /\ ~LessNanos(i64_MAX, last.duration[1]))
               => last.encoded.profile.duration_nanos = last.duration[1]
         /\ (last.duration # None /\ LessNanos(i64_MAX, last.duration[1]))
               => last.encoded.profile.duration_nanos = <<9, 223372036, 854775807>>
         /\ last.duration = None
               => last.encoded.profile.duration_nanos = ClockNanos(last.encoded)
    /\ (last.op = "ddog_prof_Profile_serialize" /\ last.out = "ok") =>
         IF last.duration_nanos # None /\ last.duration_nanos # Some(-1)
         THEN last.encoded.profile.duration_nanos = <<0, 0, last.duration_nanos[1]>>
         ELSE last.encoded.profile.duration_nanos = ClockNanos(last.encoded)
    /\ (last.op \in {"serialize", "ddog_prof_Profile_serialize"} /\ last.out = "ok") =>
         /\ \A i \in 1..3 : last.encoded.profile.duration_nanos[i] >= 0
         /\ ~LessNanos(<<9, 223372036, 854775807>>, last.encoded.profile.duration_nanos)

\* serialize without a duration and with an end earlier than the start of the
\* profile: the duration is 0
C29_Witness ==
    /\ last.op = "serialize" /\ last.out = "ok"
    /\ last.duration = None
    /\ last.end_time # None
    /\ last.encoded.end < last.encoded.start
    /\ last.encoded.profile.duration_nanos = <<0, 0, 0>>

\* a duration of one nanosecond more than i64::MAX is clamped
C29_WitnessClamped ==
    /\ last.op = "serialize" /\ last.out = "ok"
    /\ last.duration = Some(<<9, 223372036, 854775808>>)
    /\ last.encoded.profile.duration_nanos = <<9, 223372036, 854775807>>

\* a given duration wins over the clock
C29_WitnessGiven ==
    /\ last.op = "serialize" /\ last.out = "ok"
    /\ last.duration = Some(<<0, 0, 7>>)
    /\ last.end_time = Some(5)
    /\ last.encoded.profile.duration_nanos = <<0, 0, 7>>

\* a negative duration_nanos leaves the duration to the clock
C29_WitnessNegative ==
    /\ last.op = "ddog_prof_Profile_serialize" /\ last.out = "ok"
    /\ last.duration_nanos = Some(-1)
    /\ last.end_time = None
    /\ last.encoded.profile.duration_nanos = <<0, 0, Now - StartTime>>

----------------------------------------------------------------------------
\* the sum of the deltas that the calls made of add_endpoint_count gave for
\* the endpoint e
RECURSIVE SumOfDeltas(_, _)
SumOfDeltas(calls, e) ==
    IF calls = <<>> THEN 0
    ELSE (IF Head(calls)[1] = e THEN Head(calls)[2] ELSE 0)
         + SumOfDeltas(Tail(calls), e)

\* C30: whatever samples were added, the endpoints_stats of a serialized
\* profile holds exactly the endpoints given to add_endpoint_count, each with
\* the sum of all the deltas added for it; it is empty when no count was
\* added.
C30_EndpointCounts ==
    (last.op \in {"serialize", "ddog_prof_Profile_serialize"} /\ last.out = "ok") =>
        /\ DOMAIN last.encoded.endpoints_stats =
              {hist.counts[i][1] : i \in 1..Len(hist.counts)}
        /\ \A e \in DOMAIN last.encoded.endpoints_stats :
              last.encoded.endpoints_stats[e] = SumOfDeltas(hist.counts, e)
        /\ hist.counts = <<>> => last.encoded.endpoints_stats = EmptyMap

\* a profile serialized after a sample was added and one endpoint was counted
\* twice, by 2 and by 1: its count is 3
C30_Witness ==
    /\ last.op = "serialize" /\ last.out = "ok"
    /\ hist.counts = <<(<<"ep1", 2>>), (<<"ep1", 1>>)>>
    /\ hist.keys # {}
    /\ last.encoded.endpoints_stats["ep1"] = 3

\* a profile serialized with samples and no count: the statistics are empty
C30_WitnessEmpty ==
    /\ last.op = "serialize" /\ last.out = "ok"
    /\ hist.counts = <<>>
    /\ hist.keys # {}
    /\ DOMAIN last.encoded.endpoints_stats = {}

\* two endpoints counted, one of them down to 0
C30_WitnessTwo ==
    /\ last.op = "ddog_prof_Profile_serialize" /\ last.out = "ok"
    /\ DOMAIN last.encoded.endpoints_stats = {"ep1", "ep2"}
    /\ last.encoded.endpoints_stats["ep1"] = 0
    /\ last.encoded.endpoints_stats["ep2"] = 2

----------------------------------------------------------------------------
(* Order of add and add_endpoint (SpecEndpoints).                          *)

\* the span ids of the numeric "local root span id" labels of a sample of
\* the caller
SpanIdsOfSample(sample) ==
    {SpanIdOf(l.num) : l \in {m \in Range(sample.labels) :
                                m.key = "local root span id" /\ m.str = None}}

\* the calls of add, as positions in the history, that gave a sample with the
\* span id k; the calls of add_endpoint for k
AddCallsFor(k) ==
    {a \in 1..Len(hist.calls) :
        hist.calls[a].op = "add" /\ k \in SpanIdsOfSample(hist.calls[a].sample)}
EndpointCallsFor(k) ==
    {b \in 1..Len(hist.calls) :
        hist.calls[b].op = "add_endpoint" /\ hist.calls[b].local_root_span_id = k}

\* the span ids of the i-th serialized sample
SpanIdsOfSerialized(i) ==
    SpanIdsOfSample([labels |-> ApiLabelsOf(profile, ObservationOf(i).sample.labels)])

\* C31: a serialized sample with the local root span id k carries the
\* endpoint given for k, whether add_endpoint(k, e) came before the add of
\* the sample or after it, as long as it came before serialize.
C31_LazyEndpoints ==
    (last.op = "serialize" /\ last.out = "ok")
      => \A i \in 1..Len(last.encoded.profile.samples) :
           \A k \in SpanIdsOfSerialized(i) :
             \A a \in AddCallsFor(k), b \in EndpointCallsFor(k) :
                /\ a < b => AddedEndpoints(i)
                              = <<[str |-> hist.endpoints[k], num |-> 0, num_unit |-> 0]>>
                /\ b < a => AddedEndpoints(i)
                              = <<[str |-> hist.endpoints[k], num |-> 0, num_unit |-> 0]>>

\* the sample was added first and its endpoint was given afterwards, once
C31_Witness ==
    /\ last.op = "serialize" /\ last.out = "ok"
    /\ \E i \in 1..Len(last.encoded.profile.samples) :
         \E k \in SpanIdsOfSerialized(i) :
            /\ AddCallsFor(k) # {}
            /\ Cardinality(EndpointCallsFor(k)) = 1
            /\ \A a \in AddCallsFor(k), b \in EndpointCallsFor(k) : a < b
            /\ AddedEndpoints(i) = <<[str |-> "ep1", num |-> 0, num_unit |-> 0]>>

\* the endpoint was given first and the sample added afterwards
C31_WitnessBefore ==
    /\ last.op = "serialize" /\ last.out = "ok"
    /\ \E i \in 1..Len(last.encoded.profile.samples) :
         \E k \in SpanIdsOfSerialized(i) :
            /\ AddCallsFor(k) # {} /\ EndpointCallsFor(k) # {}
            /\ \A a \in AddCallsFor(k), b \in EndpointCallsFor(k) : b < a
            /\ AddedEndpoints(i) = <<[str |-> "ep2", num |-> 0, num_unit |-> 0]>>

----------------------------------------------------------------------------
(* Proportional rules at serialization (SpecScaling).                      *)

\* e is x.num / x.den times v rounded to the nearest integer, a half going
\* away from zero (v, num >= 0 and den > 0)
IsRoundedScale(e, v, info) ==
    /\ 2 * info.scale_den * e - info.scale_den <= 2 * v * info.scale_num
    /\ 2 * v * info.scale_num < 2 * info.scale_den * e + info.scale_den

\* the i-th serialized sample has a label whose key and whose str are the
\* strings name and value (the str of a numeric label is the empty string)
EmittedHasLabel(i, name, value) ==
    \E l \in Range(last.encoded.profile.samples[i].labels) :
        EncodedString(l.key) = name /\ EncodedString(l.str) = value

\* the registered rule x is a rule of a label
IsByLabel(x) == ~(x.label_name = "" /\ x.label_value = "")

\* the registered rules listing the offset o that reach the i-th serialized
\* sample: the by-value rules and the rules of the labels it has
RulesReaching(i, o) ==
    {x \in hist.rules :
        /\ o \in x.offsets
        /\ IsByLabel(x) => EmittedHasLabel(i, x.label_name, x.label_value)}

\* C32: in a serialized profile every observation has, at each offset listed
\* by a proportional by-value rule, its stored value times the scale of the
\* rule, rounded; at each offset that no rule applying to it lists, its
\* stored value; and all its stored values when no rule is registered.
C32_ProportionalByValue ==
    (last.op = "serialize" /\ last.out = "ok")
      => \A i \in 1..Len(last.encoded.profile.samples) :
           /\ Len(last.encoded.profile.samples[i].values) = Len(ObservationOf(i).values)
           /\ \A o \in 0..(Len(ObservationOf(i).values) - 1) :
                /\ \A x \in hist.rules :
                     (/\ x.label_name = "" /\ x.label_value = ""
                      /\ x.info.tag = "Proportional" /\ o \in x.offsets)
                       => IsRoundedScale(last.encoded.profile.samples[i].values[o + 1],
                                         ObservationOf(i).values[o + 1], x.info)
                /\ RulesReaching(i, o) = {}
                     => last.encoded.profile.samples[i].values[o + 1]
                          = ObservationOf(i).values[o + 1]
           /\ hist.rules = {}
                => last.encoded.profile.samples[i].values = ObservationOf(i).values

\* the by-value rule of scale 3/2 on the offsets 0 and 1 changed both values
\* of a sample with a label and the one value of a sample without labels
C32_Witness ==
    /\ last.op = "serialize" /\ last.out = "ok"
    /\ \E x \in hist.rules :
          /\ x.label_name = "" /\ x.info = Proportional(3, 2) /\ x.offsets = {0, 1}
    /\ \E i, j \in 1..Len(last.encoded.profile.samples) :
          /\ ObservationOf(i).values = <<2, 1>>
          /\ last.encoded.profile.samples[i].values = <<3, 2>>
          /\ last.encoded.profile.samples[i].labels # <<>>
          /\ ObservationOf(j).values = <<0, 2>>
          /\ last.encoded.profile.samples[j].values = <<0, 3>>

\* a by-value rule on offset 0 alone left the value at offset 1 as stored
C32_WitnessOtherOffset ==
    /\ last.op = "serialize" /\ last.out = "ok"
    /\ hist.rules = {[label_name |-> "", label_value |-> "", offsets |-> {0},
                      info |-> Proportional(2, 1)]}
    /\ \E i \in 1..Len(last.encoded.profile.samples) :
          /\ ObservationOf(i).values = <<2, 1>>
          /\ last.encoded.profile.samples[i].values = <<4, 1>>

\* samples serialized with no rule registered
C32_WitnessNoRules ==
    /\ last.op = "serialize" /\ last.out = "ok"
    /\ hist.rules = {}
    /\ \E i \in 1..Len(last.encoded.profile.samples) :
          last.encoded.profile.samples[i].values = <<2, 1>>

----------------------------------------------------------------------------
(* By-label rules at serialization (SpecScaling).                          *)

C33_WitnessOtherValue ==
    /\ last.op = "serialize" /\ last.out = "ok"
    /\ \E x \in hist.rules :
          x.label_name = "thread" /\ x.label_value = "b" /\ x.offsets = {0}
    /\ \E i \in 1..Len(last.encoded.profile.samples) :
          /\ EmittedHasLabel(i, "thread", "a")
          /\ ObservationOf(i).values = <<2, 1>>
          /\ last.encoded.profile.samples[i].values[1] = 2

\* a rule of a label with the empty value reaches the numeric label of that
\* key, whose str is the empty string
C33_WitnessEmptyValue ==
    /\ last.op = "serialize" /\ last.out = "ok"
    /\ \E x \in hist.rules : x.label_name = "end_timestamp_ns" /\ x.label_value = ""
    /\ \E i \in 1..Len(last.encoded.profile.samples) :
          /\ ObservationOf(i).values = <<0, 3>>
          /\ last.encoded.profile.samples[i].values = <<0, 6>>

----------------------------------------------------------------------------
(* Span ids as 64-bit patterns (SpecEndpoints).                            *)

\* u64::MAX, the span id whose bit pattern is the i64 -1
U64_MAX == [i \in 1..4 |-> Pow16 - 1]

\* the numbers of the numeric "local root span id" labels of the i-th
\* serialized sample
LrsiNumbers(i) ==
    {l.num : l \in {m \in Range(ApiLabelsOf(profile, ObservationOf(i).sample.labels)) :
                      m.key = "local root span id" /\ m.str = None}}

\* C34: a sample whose local root span id label holds the i64 with the bit
\* pattern of the u64 span id k, k above i64::MAX included (u64::MAX is -1),
\* is serialized with the endpoint given by add_endpoint(k, e), and with no
\* endpoint of another span id.
C34_SpanIdBitPattern ==
    (last.op = "serialize" /\ last.out = "ok")
      => \A i \in 1..Len(last.encoded.profile.samples) : \A n \in LrsiNumbers(i) :
            /\ Len(AddedEndpoints(i)) <= 1
            /\ \A k \in DOMAIN hist.endpoints :
                 IF k = SpanIdOf(n)
                 THEN AddedEndpoints(i)
                        = <<[str |-> hist.endpoints[k], num |-> 0, num_unit |-> 0]>>
                 ELSE SpanIdOf(n) \notin DOMAIN hist.endpoints
                        => AddedEndpoints(i) = <<>>
            /\ n = -1 => (AddedEndpoints(i) # <<>> <=> U64_MAX \in DOMAIN hist.endpoints)

\* endpoints were given for u64::MAX and for 1: the sample with the span id
\* -1 carries the endpoint of u64::MAX
C34_Witness ==
    /\ last.op = "serialize" /\ last.out = "ok"
    /\ DOMAIN hist.endpoints = {U64_MAX, U64(1)}
    /\ hist.endpoints[U64_MAX] = "ep1" /\ hist.endpoints[U64(1)] = "ep2"
    /\ \E i \in 1..Len(last.encoded.profile.samples) :
          /\ LrsiNumbers(i) = {-1}
          /\ AddedEndpoints(i) = <<[str |-> "ep1", num |-> 0, num_unit |-> 0]>>

\* an endpoint was given for 1 alone: the sample with the span id -1 carries
\* none
C34_WitnessOther ==
    /\ last.op = "serialize" /\ last.out = "ok"
    /\ DOMAIN hist.endpoints = {U64(1)}
    /\ \E i \in 1..Len(last.encoded.profile.samples) :
          LrsiNumbers(i) = {-1} /\ AddedEndpoints(i) = <<>>

----------------------------------------------------------------------------
(* A reset that fails (SpecReset).                                         *)

\* C35: a reset that fails, the fresh profile not having been built, leaves
\* the profile as it was, and the profile goes on working: nothing is
\* swapped, nothing is returned, and ddog_prof_Profile_reset answers false.
C35_FailedResetKeepsProfile ==
    [][(last'.op \in {"reset", "ddog_prof_Profile_reset"} /\ last'.out # "ok")
          => /\ profile' = profile
             /\ old_profile' = old_profile
             /\ crashed' = "no"
             /\ last'.op = "ddog_prof_Profile_reset" => last'.ok = FALSE]_vars

\* a reset failed on a profile that holds an observation, and the add that
\* followed was summed into that observation
C35_Witness ==
    /\ last.op = "add" /\ last.out = "ok"
    /\ Len(hist.calls) = 3
    /\ hist.calls[1].op = "add" /\ hist.calls[1].sample = last.sample
    /\ hist.calls[2] = [op |-> "reset", out |-> "err"]
    /\ Len(Aggregated) = 1
    /\ Aggregated[1].values = <<2, 20>>

\* a reset through ddog_prof_Profile_reset failed on a profile that holds an
\* observation
C35_WitnessFfi ==
    /\ last.op = "ddog_prof_Profile_reset" /\ last.out = "err" /\ last.ok = FALSE
    /\ Len(Aggregated) + Len(Timestamped) >= 2

----------------------------------------------------------------------------
(* Accounting of the arena (SpecArena).                                    *)

\* the sum of the lengths of the regions the calls returned
RECURSIVE SumOfLens(_)
SumOfLens(calls) ==
    IF calls = <<>> THEN 0 ELSE Head(calls).len + SumOfLens(Tail(calls))

\* the least multiple of a, and at least a, that is not below size
PaddedAtLeastOne(size, a) == IF size <= a THEN a ELSE PaddedTo(size, a)

\* the allocations that succeeded for a request of a size above zero
SizedAllocations == SelectSeq(hist.calls, LAMBDA c : c.size > 0)

\* the regions lie back to back from the start of the arena, each as long as
\* its request rounded up to a multiple, at least one, of the alignment
BackToBack(allocs) ==
    /\ \A j \in 1..Len(allocs) :
          /\ allocs[j].len = PaddedAtLeastOne(allocs[j].size, arena.alignment)
          /\ allocs[j].offset = SumOfLens(SubSeq(allocs, 1, j - 1))
    /\ \A j, k \in 1..Len(allocs) :
          j < k => allocs[j].offset + allocs[j].len <= allocs[k].offset

\* C36 as stated: every successful allocation returns a region of the
\* request size rounded up to at least one multiple of the alignment, the
\* regions lie back to back, and the remaining capacity plus the lengths
\* returned is the size of the arena.
C36_Original ==
    /\ BackToBack(hist.calls)
    /\ arena.remaining_capacity + SumOfLens(hist.calls) = arena.len

\* C36: the successful allocations of a size above zero return disjoint
\* regions that lie back to back from the start of the arena, each as long
\* as its request rounded up to a multiple of the alignment; an allocation of
\* size zero succeeds with a region of length zero; and at every point the
\* remaining capacity plus the sum of all the lengths returned is the size
\* of the arena.
C36_ArenaAccounting ==
    /\ BackToBack(SizedAllocations)
    /\ \A j \in 1..Len(hist.calls) : hist.calls[j].size = 0 => hist.calls[j].len = 0
    /\ arena.remaining_capacity + SumOfLens(hist.calls) = arena.len

\* allocations of 1 and 3 bytes in an arena of alignment 4 took 4 bytes each,
\* back to back, and left nothing of its 8 bytes
C36_Witness ==
    /\ arena.alignment = 4 /\ arena.len = 8 /\ arena.remaining_capacity = 0
    /\ Len(hist.calls) = 2
    /\ [j \in 1..2 |-> hist.calls[j].size] = <<1, 3>>
    /\ [j \in 1..2 |-> hist.calls[j].offset] = <<0, 4>>
    /\ [j \in 1..2 |-> hist.calls[j].len] = <<4, 4>>

\* allocations of 1, 3 and 4 bytes in an arena of alignment 1 lie back to back
C36_WitnessUnaligned ==
    /\ arena.alignment = 1
    /\ Len(hist.calls) = 3
    /\ [j \in 1..3 |-> hist.calls[j].offset] = <<0, 1, 4>>
    /\ [j \in 1..3 |-> hist.calls[j].len] = <<1, 3, 4>>

\* an allocation of size zero succeeded between two others
C36_WitnessZero ==
    /\ Len(hist.calls) = 3
    /\ hist.calls[2].size = 0 /\ hist.calls[2].len = 0
    /\ hist.calls[1].len > 0
    /\ hist.calls[3].offset = hist.calls[1].len

----------------------------------------------------------------------------
(* The published length of the append-only table (SpecAppend).             *)

\* C37: in every reachable state of the append-only table the published
\* length is at most the capacity, and no add or add_slice wrote past the end
\* of the region.
C37_LengthWithinCapacity ==
    /\ atable.len <= atable.cap
    /\ last.out \notin {"overrun", "fault"}

\* a release build published a length beyond the capacity after an add_slice
\* that copied its items past the end of the region
C37_Witness ==
    /\ build = "release"
    /\ last.op = "add_slice" /\ last.out = "overrun"
    /\ last.before.len + Len(last.items) > last.before.cap
    /\ atable.len = last.before.len + Len(last.items)
    /\ atable.len > atable.cap

\* a debug build panics on the slice that does not fit and publishes nothing
C37_WitnessDebug ==
    /\ build = "debug"
    /\ last.op = "add_slice" /\ last.out = "panic"
    /\ last.before.len + Len(last.items) > last.before.cap
    /\ atable = last.before

\* add on a table whose length is within the capacity never publishes a
\* length beyond the capacity
C37_AddAlone ==
    (last.op = "add" /\ last.before.len <= last.before.cap)
        => (last.out \in {"ok", "panic"} /\ atable.len <= atable.cap)

----------------------------------------------------------------------------
(* get_id of the entity table beyond its items (SpecTable).                *)

\* C38: get_id only returns an item that was inserted: for an id whose
\* offset is not below the number of items stored, the offset equal to that
\* number included, get_id returns no value and aborts.
C38_GetIdAborts ==
    last.op = "get_id" =>
        /\ last.id >= IdTable_len(id_table) => last.out = "panic"
        /\ last.out = "ok" => \E i \in 1..Len(inserted_items) :
                                  inserted_items[i] = last.item

\* get_id of the offset equal to the number of items returned the zeroes of
\* a slot that was never written, which are no item of the table
C38_Witness ==
    /\ last.op = "get_id" /\ last.out = "ok"
    /\ last.id = IdTable_len(id_table)
    /\ IdTable_len(id_table) = 1
    /\ last.item = TestItem(0)
    /\ \A i \in 1..Len(inserted_items) : inserted_items[i] # last.item

\* get_id of the offset equal to the number of items of a full table read
\* past the end of the region
C38_WitnessPastEnd ==
    /\ last.op = "get_id" /\ last.out = "fault"
    /\ last.id = IdTable_len(id_table)

\* an offset above the number of items aborts, one below it returns the item
\* inserted at that offset
C38_GetIdOffLength ==
    last.op = "get_id" =>
        /\ last.id > IdTable_len(id_table) => last.out = "panic"
        /\ last.id < IdTable_len(id_table) =>
              /\ last.out = "ok"
              /\ last.item = id_table.items[last.id + 1]
              /\ \E i \in 1..Len(inserted_items) : inserted_items[i] = last.item

----------------------------------------------------------------------------
(* Publication of a string to the readers on other threads (SpecReader).   *)

\* the string of id `id` is published whole: its view is written, its bytes
\* lie below the published length of the byte table and are the bytes of
\* the string inserted under that id
PublishedWhole(id) ==
    /\ id < Len(cell.ids)
    /\ cell.t.vec.mem[id + 1] = StrView(cell.t.vec.mem[id + 1].off, Len(cell.ids[id + 1]))
    /\ cell.t.vec.mem[id + 1].off >= 0
    /\ cell.t.vec.mem[id + 1].off + cell.t.vec.mem[id + 1].n <= cell.t.bytes.len
    /\ Cell_str(cell.t, cell.t.vec.mem[id + 1]) = cell.ids[id + 1]

\* C39: the bytes of a new string are written and published in the byte
\* table before its view is published in the table of views: every id below
\* the published length of the table of views has its string whole in
\* memory, a reader whose try_get_id succeeded sees the complete string that
\* was inserted under that id, and try_get_id of an id that was not
\* published when the reader looked returns an error.
C39_PublicationOrder ==
    /\ \A id \in 0..(cell.t.vec.len - 1) : PublishedWhole(id)
    /\ cell.r.out = "ok" =>
          /\ cell.r.id < Len(cell.ids)
          /\ cell.r.str = cell.ids[cell.r.id + 1]
    /\ (cell.r.out = "err") = (cell.r.pc = "idle" /\ cell.r.n > 0 /\ cell.r.id >= cell.r.seen)
    /\ cell.r.pc \in {"copied", "read"} => cell.r.id < cell.r.seen

\* the reader was given the whole string of id 1 while the writer was
\* inside the insert of the next string
C39_Witness ==
    /\ cell.r.out = "ok" /\ cell.r.id = 1
    /\ Len(cell.r.str) >= 2 /\ cell.r.str = cell.ids[2]
    /\ cell.w.pc > 0 /\ cell.w.id = 2

\* the reader asked for the id of a string whose bytes and view were written
\* but whose view was not published yet, and was given an error
C39_WitnessNotYet ==
    /\ cell.r.out = "err" /\ cell.r.id = 1 /\ cell.r.seen = 1
    /\ cell.w.pc > 0 /\ cell.w.id = 1
    /\ insert_order[cell.w.pc] = "store_vec"
    /\ cell.t.vec.mem[2] = StrView(0, Len(cell.w.str))

\* the reader read a whole string while the copy of the next one was half
\* done
C39_WitnessMidCopy ==
    /\ cell.r.out = "ok" /\ cell.r.id = 1 /\ cell.r.str = cell.ids[2]
    /\ cell.w.pc > 0 /\ insert_order[cell.w.pc] = "copy_rest"
    /\ Len(cell.w.str) >= 2

----------------------------------------------------------------------------
(* The handles of a channel across write_all (SpecChannel).                *)

\* the handles of a sequence
HandlesOf(q) == {q[i] : i \in 1..Len(q)}

\* write_all has returned
WriteAllReturned == channel.pc = "idle" /\ channel.result # "none"

\* the handle went out with data and is in the deferred-close set, or is in
\* the send queue
HandleKept(h) ==
    \/ h \in HandlesOf(channel.sent) /\ h \in HandlesOf(channel.metadata.deferred)
    \/ h \in HandlesOf(channel.metadata.to_send)

\* C40: whatever the sends returned (data written, nothing written, an
\* interruption, another error), every handle that was queued when write_all
\* started has, when write_all returns, been sent with data and moved to the
\* deferred-close set or been put back in the send queue.
C40_HandlesConserved ==
    WriteAllReturned => \A h \in HandlesOf(channel.queued) : HandleKept(h)

\* write_all returned Ok after an interrupted send, and a handle that was
\* queued is neither in the queue nor among the handles sent and deferred
C40_Witness ==
    /\ WriteAllReturned /\ channel.result = "ok"
    /\ channel.interrupted
    /\ \E h \in HandlesOf(channel.queued) : ~HandleKept(h)
    /\ channel.metadata.to_send = <<>> /\ channel.metadata.deferred = <<>>

\* without an interrupted send of handles every queued handle is kept
C40_WithoutInterruption ==
    (WriteAllReturned /\ ~channel.interrupted)
        => \A h \in HandlesOf(channel.queued) : HandleKept(h)

\* a handle is never both in the queue and deferred, and none is made up
C40_NoDuplicates ==
    /\ HandlesOf(channel.metadata.to_send) \cap HandlesOf(channel.metadata.deferred) = {}
    /\ HandlesOf(channel.metadata.to_send) \cup HandlesOf(channel.metadata.deferred)
          \subseteq 1..channel.made

\* a send wrote data and took two handles along, a later error left the rest
C40_WitnessSent ==
    /\ WriteAllReturned
    /\ Len(channel.sent) = 2 /\ channel.metadata.deferred = channel.sent
    /\ ~channel.interrupted

====
